---- MODULE Spec2Model ----
(***************************************************************************)
(* Model of the shadow VM of core/lib/multivm/src/versions/shadow.rs:      *)
(* ShadowVm drives a main VM and an optional shadow VM (vm_fast), compares *)
(* their outputs with DivergenceErrors / UniqueStorageLogs and, on the     *)
(* first divergence, takes the shadow out of its RefCell and reports.      *)
(*                                                                         *)
(* The two VMs are opaque: what a VM returns from a call is an input of    *)
(* the action, and the state of a VM is the sequence of state-changing     *)
(* calls it has received.                                                  *)
(***************************************************************************)
EXTENDS Integers, Sequences, FiniteSets, TLC

VARIABLES
    main,      \* ShadowVm::main: the main VM, as the calls it has received and the
               \* used_contract_hashes its execution state lists
    shadow,    \* ShadowVm::shadow: contents of the RefCell, None or Some(VmWithReporting)
    reports,   \* one entry per completed run of VmWithReporting::report up to its last branch
    status,    \* "running", or "panicked" once a panic! unwinds out of the driver
    events,    \* what the last driver operation did, in program order
    last,      \* the last driver operation: its call and what each VM returned to it
    ret,       \* the value the last driver operation returned, None when it did not return
    gateway,   \* the TEE prover gateway: PeriodicApiStruct::run, its stop channel and the
               \* requests it has put on the wire; None where the gateway is not running
    producer   \* TeeVerifierInputProducer::save_result with the object store and the
               \* database it writes; None where the producer is not running

vars == <<main, shadow, reports, status, events, last, ret, gateway, producer>>

\* Longest sequence of state-changing calls delivered to the main VM.
MaxOps == 2

-----------------------------------------------------------------------------
(* Option<T> *)

None == <<>>

Some(x) == <<x>>

unwrap(o) == o[1]

-----------------------------------------------------------------------------
(* Inputs: transactions, block envs, modes, tracers and what the VMs return *)

Transactions == {1, 2}

L2BlockEnvs == {1}

VmExecutionModes == {"OneTx", "Batch"}

TracerDispatchers == {"tracer"}

\* the with_compression flags the caller passes
Compressions == {TRUE}

Directories == {"dumps"}

StorageLogWithPreviousValue(kind, key, previous_value, value) ==
    [log |-> [kind |-> kind, key |-> key, value |-> value], previous_value |-> previous_value]

\* StorageLog::is_write
\* is_write that takes every log for a write
is_write_always(log) == TRUE

is_write(log) == log.kind # "Read"

BaseResult ==
    [result |-> "Success",
     logs |-> [events |-> <<1, 2>>,
               system_l2_to_l1_logs |-> <<>>,
               user_l2_to_l1_logs |-> <<>>,
               storage_logs |-> <<StorageLogWithPreviousValue("InitialWrite", 1, 0, 2)>>],
     refunds |-> 0]

\* The same writes as BaseResult, as the old VM reports them: a read, the
\* write split in two, and a no-op write to another key.
BenignResult ==
    [BaseResult EXCEPT !.logs.storage_logs =
        <<StorageLogWithPreviousValue("Read", 1, 0, 0),
          StorageLogWithPreviousValue("InitialWrite", 1, 0, 1),
          StorageLogWithPreviousValue("RepeatedWrite", 2, 5, 5),
          StorageLogWithPreviousValue("RepeatedWrite", 1, 1, 2)>>]

EventsResult == [BaseResult EXCEPT !.logs.events = <<1, 3>>]

VmExecutionResults == {BaseResult, BenignResult, EventsResult}

BaseState ==
    [events |-> <<1>>,
     user_l2_to_l1_logs |-> <<>>,
     system_logs |-> <<>>,
     storage_refunds |-> <<>>,
     pubdata_costs |-> <<>>,
     used_contract_hashes |-> <<1, 2>>,
     deduplicated_storage_logs |-> <<[kind |-> "InitialWrite", key |-> 1, value |-> 2]>>]

PermutedState == [BaseState EXCEPT !.used_contract_hashes = <<2, 1>>]

CurrentExecutionStates == {BaseState, PermutedState}

BaseBatch ==
    [block_tip_execution_result |-> BaseResult,
     final_execution_state |-> BaseState,
     final_bootloader_memory |-> Some(<<1>>),
     pubdata_input |-> Some(<<1>>),
     state_diffs |-> Some(<<>>)]

FinishedL1Batches ==
    {BaseBatch,
     [BaseBatch EXCEPT !.block_tip_execution_result = BenignResult,
                       !.final_execution_state = PermutedState],
     [BaseBatch EXCEPT !.pubdata_input = Some(<<2>>)]}

BootloaderMemories == {<<>>, <<1>>}

CompressedBytecodes == {<<>>, <<1>>}

GasValues == {1, 2}

VmMemoryMetrics == {1}

\* (Result<(), BytecodeCompressionError>, VmExecutionResultAndLogs)
CompressionResults ==
    {<<"Ok", BaseResult>>, <<"Ok", EventsResult>>, <<"Err", BenignResult>>}

L1BatchEnvs == {[number |-> 42]}

SystemEnvs == {"system_env"}

-----------------------------------------------------------------------------
(* UniqueStorageLogs *)

map_insert(map, key, value) ==
    [k \in DOMAIN map \cup {key} |-> IF k = key THEN value ELSE map[k]]

RECURSIVE unique_logs_fold(_, _)
unique_logs_fold(logs, unique_logs) ==
    IF logs = <<>> THEN unique_logs
    ELSE LET log == Head(logs)
         IN unique_logs_fold(Tail(logs),
                IF ~is_write(log.log) THEN unique_logs
                ELSE IF log.log.key \in DOMAIN unique_logs
                     THEN [unique_logs EXCEPT ![log.log.key].log.value = log.log.value]
                     ELSE map_insert(unique_logs, log.log.key, log))

\* a normaliser whose loop starts at the second log
UniqueStorageLogs_new_from_second(logs) ==
    LET unique_logs == unique_logs_fold(IF logs = <<>> THEN logs ELSE Tail(logs), <<>>)
        retained == {key \in DOMAIN unique_logs :
                        unique_logs[key].previous_value # unique_logs[key].log.value}
    IN [key \in retained |-> unique_logs[key]]

\* a normaliser without the retain step
UniqueStorageLogs_new_without_retain(logs) == unique_logs_fold(logs, <<>>)

\* a normaliser that keeps the first write to a key as it is
UniqueStorageLogs_new_first_write(logs) ==
    LET written == {logs[i].log.key : i \in {j \in DOMAIN logs : is_write(logs[j].log)}}
        first(key) == CHOOSE i \in DOMAIN logs :
                        /\ is_write(logs[i].log) /\ logs[i].log.key = key
                        /\ \A j \in 1..(i - 1) : ~(is_write(logs[j].log) /\ logs[j].log.key = key)
        retained == {key \in written :
                        logs[first(key)].previous_value # logs[first(key)].log.value}
    IN [key \in retained |-> logs[first(key)]]

UniqueStorageLogs_new(logs) ==
    LET unique_logs == unique_logs_fold(logs, <<>>)
        retained == {key \in DOMAIN unique_logs :
                        unique_logs[key].previous_value # unique_logs[key].log.value}
    IN [key \in retained |-> unique_logs[key]]

-----------------------------------------------------------------------------
(* DivergenceErrors: the accumulated complaints, each named by its context *)

\* check_match that keeps the latest complaint only
check_match_keeping_latest(errors, context, main_value, shadow_value) ==
    IF main_value # shadow_value THEN <<context>> ELSE errors

check_match(errors, context, main_value, shadow_value) ==
    IF main_value # shadow_value THEN Append(errors, context) ELSE errors

\* check_results_match comparing the storage logs as the VMs return them
check_results_match_raw_logs(errors, main_result, shadow_result) ==
    LET e1 == check_match(errors, "result", main_result.result, shadow_result.result)
        e2 == check_match(e1, "logs.events", main_result.logs.events, shadow_result.logs.events)
        e3 == check_match(e2, "logs.system_l2_to_l1_logs",
                          main_result.logs.system_l2_to_l1_logs,
                          shadow_result.logs.system_l2_to_l1_logs)
        e4 == check_match(e3, "logs.user_l2_to_l1_logs",
                          main_result.logs.user_l2_to_l1_logs,
                          shadow_result.logs.user_l2_to_l1_logs)
        e5 == check_match(e4, "logs.storage_logs", main_result.logs.storage_logs,
                          shadow_result.logs.storage_logs)
    IN check_match(e5, "refunds", main_result.refunds, shadow_result.refunds)

\* check_results_match checking refunds before the storage logs
check_results_match_refunds_early(errors, main_result, shadow_result) ==
    LET e1 == check_match(errors, "result", main_result.result, shadow_result.result)
        e2 == check_match(e1, "logs.events", main_result.logs.events, shadow_result.logs.events)
        e3 == check_match(e2, "logs.system_l2_to_l1_logs",
                          main_result.logs.system_l2_to_l1_logs,
                          shadow_result.logs.system_l2_to_l1_logs)
        e4 == check_match(e3, "logs.user_l2_to_l1_logs",
                          main_result.logs.user_l2_to_l1_logs,
                          shadow_result.logs.user_l2_to_l1_logs)
        e5 == check_match(e4, "refunds", main_result.refunds, shadow_result.refunds)
        main_logs == UniqueStorageLogs_new(main_result.logs.storage_logs)
        shadow_logs == UniqueStorageLogs_new(shadow_result.logs.storage_logs)
    IN check_match(e5, "logs.storage_logs", main_logs, shadow_logs)

check_results_match(errors, main_result, shadow_result) ==
    LET e1 == check_match(errors, "result", main_result.result, shadow_result.result)
        e2 == check_match(e1, "logs.events", main_result.logs.events, shadow_result.logs.events)
        e3 == check_match(e2, "logs.system_l2_to_l1_logs",
                          main_result.logs.system_l2_to_l1_logs,
                          shadow_result.logs.system_l2_to_l1_logs)
        e4 == check_match(e3, "logs.user_l2_to_l1_logs",
                          main_result.logs.user_l2_to_l1_logs,
                          shadow_result.logs.user_l2_to_l1_logs)
        main_logs == UniqueStorageLogs_new(main_result.logs.storage_logs)
        shadow_logs == UniqueStorageLogs_new(shadow_result.logs.storage_logs)
        e5 == check_match(e4, "logs.storage_logs", main_logs, shadow_logs)
    IN check_match(e5, "refunds", main_result.refunds, shadow_result.refunds)

\* BTreeSet collected from an iterator
collect_set(seq) == {seq[i] : i \in DOMAIN seq}

RECURSIVE gather_logs_fold(_, _)
gather_logs_fold(logs, map) ==
    IF logs = <<>> THEN map
    ELSE LET log == Head(logs)
         IN gather_logs_fold(Tail(logs),
                IF is_write(log) THEN map_insert(map, log.key, log) ELSE map)

\* gather_logs without the is_write filter
gather_logs_keeping_reads(logs) ==
    LET latest(key) == CHOOSE i \in DOMAIN logs :
                            /\ logs[i].key = key
                            /\ \A j \in DOMAIN logs : logs[j].key = key => j <= i
    IN [key \in {logs[i].key : i \in DOMAIN logs} |-> logs[latest(key)]]

gather_logs(logs) == gather_logs_fold(logs, <<>>)

\* check_final_states_match comparing used_contract_hashes as the Vecs they are
check_final_states_match_in_order(errors, main_state, shadow_state) ==
    LET e1 == check_match(errors, "final_state.events", main_state.events, shadow_state.events)
        e2 == check_match(e1, "final_state.user_l2_to_l1_logs",
                          main_state.user_l2_to_l1_logs, shadow_state.user_l2_to_l1_logs)
        e3 == check_match(e2, "final_state.system_logs",
                          main_state.system_logs, shadow_state.system_logs)
        e4 == check_match(e3, "final_state.storage_refunds",
                          main_state.storage_refunds, shadow_state.storage_refunds)
        e5 == check_match(e4, "final_state.pubdata_costs",
                          main_state.pubdata_costs, shadow_state.pubdata_costs)
        e6 == check_match(e5, "final_state.used_contract_hashes",
                          main_state.used_contract_hashes,
                          shadow_state.used_contract_hashes)
    IN check_match(e6, "deduplicated_storage_logs",
                   gather_logs(main_state.deduplicated_storage_logs),
                   gather_logs(shadow_state.deduplicated_storage_logs))

check_final_states_match(errors, main_state, shadow_state) ==
    LET e1 == check_match(errors, "final_state.events", main_state.events, shadow_state.events)
        e2 == check_match(e1, "final_state.user_l2_to_l1_logs",
                          main_state.user_l2_to_l1_logs, shadow_state.user_l2_to_l1_logs)
        e3 == check_match(e2, "final_state.system_logs",
                          main_state.system_logs, shadow_state.system_logs)
        e4 == check_match(e3, "final_state.storage_refunds",
                          main_state.storage_refunds, shadow_state.storage_refunds)
        e5 == check_match(e4, "final_state.pubdata_costs",
                          main_state.pubdata_costs, shadow_state.pubdata_costs)
        e6 == check_match(e5, "final_state.used_contract_hashes",
                          collect_set(main_state.used_contract_hashes),
                          collect_set(shadow_state.used_contract_hashes))
    IN check_match(e6, "deduplicated_storage_logs",
                   gather_logs(main_state.deduplicated_storage_logs),
                   gather_logs(shadow_state.deduplicated_storage_logs))

\* anyhow::Result<()>: None is Ok(()), Some(err) is Err(err)
into_result(errors) ==
    IF errors = <<>> THEN None ELSE Some([errors |-> errors, context |-> None])

single(context, main_value, shadow_value) ==
    into_result(check_match(<<>>, context, main_value, shadow_value))

\* anyhow::Error::context
with_context(err, ctx) == [err EXCEPT !.context = Some(ctx)]

-----------------------------------------------------------------------------
(* The driver's state while one operation runs.  `borrow` counts the live   *)
(* shared borrows (Ref) of the RefCell holding the shadow.                 *)

Self ==
    [main |-> main, shadow |-> shadow, borrow |-> 0, reports |-> reports,
     status |-> "running", events |-> <<>>,
     main_ret |-> None, shadow_ret |-> None, ret |-> None]

event(self, kind, what) == [self EXCEPT !.events = Append(@, <<kind, what>>)]

\* panic!: the operation is abandoned and nothing after it runs
panic(self, message) == [event(self, "panic", message) EXCEPT !.status = "panicked"]

\* a state-changing call of the main VM, returning `result`
main_call(self, call, result) ==
    [event(self, "main", call) EXCEPT !.main.calls = Append(@, call),
                                      !.main_ret = Some(result)]

\* a read-only call of the main VM
main_query(self, call, result) ==
    [event(self, "main", call) EXCEPT !.main_ret = Some(result)]

\* shadow.vm.<call>(..): a state-changing call of the shadow VM
shadow_call(self, call, result) ==
    [event(self, "shadow", call) EXCEPT !.shadow[1].vm.calls = Append(@, call),
                                        !.shadow_ret = Some(result)]

shadow_query(self, call, result) ==
    [event(self, "shadow", call) EXCEPT !.shadow_ret = Some(result)]

\* the comparison of the two results, giving `errors`
compared(self, errors) == event(self, "compare", errors)

returns(self, value) ==
    IF self.status = "running" THEN [self EXCEPT !.ret = Some(value)] ELSE self

\* RefCell::borrow
borrow(self) == [self EXCEPT !.borrow = @ + 1]

\* take that hands out the contents and leaves them in the cell
take_leaves_shadow(self) ==
    IF self.borrow > 0 THEN panic(self, "already borrowed: BorrowMutError")
    ELSE event(self, "take", <<>>)

\* RefCell::take: replaces the contents by None through borrow_mut, which
\* panics while a Ref is alive
take(self) ==
    IF self.borrow > 0 THEN panic(self, "already borrowed: BorrowMutError")
    ELSE [event(self, "take", <<>>) EXCEPT !.shadow = None]

-----------------------------------------------------------------------------
(* VmStateDump and VmWithReporting *)

VmStateDump_new(l1_batch_env, system_env) ==
    [l1_batch_env |-> l1_batch_env,
     system_env |-> system_env,
     blocks_and_transactions |-> <<>>,
     read_storage_keys |-> <<>>,
     initial_writes |-> {},
     repeated_writes |-> {},
     factory_deps |-> <<>>]

\* VmStateDump::push_transaction, on the dump of the shadow in the cell
dump_push_transaction(self, tx) ==
    [event(self, "dump", <<"transaction", tx>>)
        EXCEPT !.shadow[1].partial_dump.blocks_and_transactions = Append(@, <<"transaction", tx>>)]

\* shadow.partial_dump.blocks_and_transactions.push(BlockOrTransaction::Block(..))
dump_push_block(self, l2_block_env) ==
    [event(self, "dump", <<"block", l2_block_env>>)
        EXCEPT !.shadow[1].partial_dump.blocks_and_transactions = Append(@, <<"block", l2_block_env>>)]

\* StorageKey::hashed_key: the digest of a storage key, taken to be free of
\* collisions
hashed_key(key) == <<"hashed_key", key>>

\* u256_to_h256: the big-endian bytes of the number
u256_to_h256(hash) == <<"h256", hash>>

\* The bytecodes the storage backend holds, by hash.
FactoryDeps == [h \in {u256_to_h256(1), u256_to_h256(2)} |-> <<"bytecode", h[2]>>]

\* the StorageView given to ShadowVm::new, with nothing cached:
\* read_storage_keys are the cached reads, initial_writes the cached answers
\* of is_write_initial
StorageView_new ==
    [cache |-> [read_storage_keys |-> <<>>, initial_writes |-> <<>>],
     factory_deps |-> FactoryDeps]

\* ReadStorage::load_factory_dep
load_factory_dep(storage, hash) ==
    IF hash \in DOMAIN storage.factory_deps THEN Some(storage.factory_deps[hash]) ELSE None

\* report_dump that keeps the reads of zero
report_dump_with_zeroes(this, used_contract_hashes) ==
    LET storage_cache == this.storage.cache
        read_keys == DOMAIN storage_cache.read_storage_keys
        written == DOMAIN storage_cache.initial_writes
        hashes == {u256_to_h256(used_contract_hashes[i]) : i \in DOMAIN used_contract_hashes}
    IN [this.partial_dump EXCEPT
            !.read_storage_keys =
                [hashed \in {hashed_key(key) : key \in read_keys} |->
                    storage_cache.read_storage_keys[
                        CHOOSE key \in read_keys : hashed_key(key) = hashed]],
            !.initial_writes =
                @ \cup {hashed_key(key) : key \in {k \in written : storage_cache.initial_writes[k]}},
            !.repeated_writes =
                @ \cup {hashed_key(key) : key \in {k \in written : ~storage_cache.initial_writes[k]}},
            !.factory_deps =
                [hash \in {h \in hashes : load_factory_dep(this.storage, h) # None} |->
                    unwrap(load_factory_dep(this.storage, hash))]]

\* VmWithReporting::report, the part that completes the dump from the
\* storage cache and from the main VM's used_contract_hashes
report_dump(this, used_contract_hashes) ==
    LET storage_cache == this.storage.cache
        read_keys == {key \in DOMAIN storage_cache.read_storage_keys :
                        storage_cache.read_storage_keys[key] # 0}
        written == DOMAIN storage_cache.initial_writes
        hashes == {u256_to_h256(used_contract_hashes[i]) : i \in DOMAIN used_contract_hashes}
    IN [this.partial_dump EXCEPT
            !.read_storage_keys =
                [hashed \in {hashed_key(key) : key \in read_keys} |->
                    storage_cache.read_storage_keys[
                        CHOOSE key \in read_keys : hashed_key(key) = hashed]],
            !.initial_writes =
                @ \cup {hashed_key(key) : key \in {k \in written : storage_cache.initial_writes[k]}},
            !.repeated_writes =
                @ \cup {hashed_key(key) : key \in {k \in written : ~storage_cache.initial_writes[k]}},
            !.factory_deps =
                [hash \in {h \in hashes : load_factory_dep(this.storage, h) # None} |->
                    unwrap(load_factory_dep(this.storage, hash))]]

\* VmWithReporting::dump_to_file; fs_ok is whether the file system calls succeed
dump_to_file(self, dumps_directory, dump, fs_ok) ==
    IF fs_ok THEN event(self, "file", <<dumps_directory, dump.l1_batch_env.number>>)
    ELSE event(self, "file_error", <<dumps_directory>>)

\* report that panics whatever panic_on_divergence says
report_always_panics(self, this, err, fs_ok) ==
    LET dump == report_dump(this, self.main.used_contract_hashes)
        s0 == event(self, "main", <<"get_current_execution_state">>)
        s1 == IF this.dumps_directory # None
              THEN LET dumped == dump_to_file(s0, unwrap(this.dumps_directory), dump, fs_ok)
                   IN IF fs_ok THEN dumped ELSE event(dumped, "warn", <<"Failed dumping VM state to file">>)
              ELSE s0
        s2 == [event(s1, "json", dump.blocks_and_transactions)
                  EXCEPT !.reports = Append(@, [dump |-> dump, err |-> err])]
    IN panic(s2, err.errors)

\* report that gives up when the dump file cannot be written
report_failing_with_file(self, this, err, fs_ok) ==
    LET dump == report_dump(this, self.main.used_contract_hashes)
        s0 == event(self, "main", <<"get_current_execution_state">>)
        s1 == IF this.dumps_directory # None
              THEN dump_to_file(s0, unwrap(this.dumps_directory), dump, fs_ok)
              ELSE s0
        s2 == [event(s1, "json", dump.blocks_and_transactions)
                  EXCEPT !.reports = Append(@, [dump |-> dump, err |-> err])]
    IN IF this.dumps_directory # None /\ ~fs_ok
       THEN panic(s1, "Failed dumping VM state to file")
       ELSE IF this.panic_on_divergence THEN panic(s2, err.errors)
       ELSE event(s2, "warn", <<"New VM is dropped">>)

\* report that logs the dump as it was recorded, without the storage part
report_partial_dump(self, this, err, fs_ok) ==
    LET dump == this.partial_dump
        s0 == event(self, "main", <<"get_current_execution_state">>)
        s1 == IF this.dumps_directory # None
              THEN LET dumped == dump_to_file(s0, unwrap(this.dumps_directory), dump, fs_ok)
                   IN IF fs_ok THEN dumped ELSE event(dumped, "warn", <<"Failed dumping VM state to file">>)
              ELSE s0
        s2 == [event(s1, "json", dump.blocks_and_transactions)
                  EXCEPT !.reports = Append(@, [dump |-> dump, err |-> err])]
    IN IF this.panic_on_divergence THEN panic(s2, err.errors)
       ELSE event(s2, "warn", <<"New VM is dropped">>)

\* VmWithReporting::report, called on the shadow taken out of the cell
report(self, this, err, fs_ok) ==
    LET dump == report_dump(this, self.main.used_contract_hashes)
        s0 == event(self, "main", <<"get_current_execution_state">>)
        s1 == IF this.dumps_directory # None
              THEN LET dumped == dump_to_file(s0, unwrap(this.dumps_directory), dump, fs_ok)
                   IN IF fs_ok THEN dumped ELSE event(dumped, "warn", <<"Failed dumping VM state to file">>)
              ELSE s0
        s2 == [event(s1, "json", dump.blocks_and_transactions)
                  EXCEPT !.reports = Append(@, [dump |-> dump, err |-> err])]
    IN IF this.panic_on_divergence THEN panic(s2, err.errors)
       ELSE event(s2, "warn", <<"New VM is dropped">>)

\* self.shadow.take().unwrap().report(&self.main, err)
take_and_report(self, err, fs_ok) ==
    LET taken == take(self)
    IN IF taken.status # "running" THEN taken
       ELSE report(taken, unwrap(self.shadow), err, fs_ok)

-----------------------------------------------------------------------------
(* ShadowVm: the operations, as functions of the driver's state and of     *)
(* what the two VMs return                                                 *)

set_dumps_directory(self, dir) ==
    returns(IF self.shadow # None
            THEN [self EXCEPT !.shadow[1].dumps_directory = Some(dir)]
            ELSE self, "()")

set_panic_on_divergence(self, flag) ==
    returns(IF self.shadow # None
            THEN [self EXCEPT !.shadow[1].panic_on_divergence = flag]
            ELSE self, "()")

\* push_transaction driving the main VM before the dump and the shadow VM
push_transaction_main_first(self, tx) ==
    LET s1 == main_call(self, <<"push_transaction", tx>>, "()")
    IN returns(IF s1.shadow # None
               THEN shadow_call(dump_push_transaction(s1, tx), <<"push_transaction", tx>>, "()")
               ELSE s1, "()")

push_transaction(self, tx) ==
    LET s1 == IF self.shadow # None
              THEN shadow_call(dump_push_transaction(self, tx), <<"push_transaction", tx>>, "()")
              ELSE self
    IN returns(main_call(s1, <<"push_transaction", tx>>, "()"), "()")

execute(self, execution_mode, main_result, shadow_result, fs_ok) ==
    LET s1 == main_call(self, <<"execute", execution_mode>>, main_result)
        s2 == shadow_call(s1, <<"execute", execution_mode>>, shadow_result)
        errors == check_results_match(<<>>, main_result, shadow_result)
        s3 == compared(s2, errors)
        result == into_result(errors)
        ctx == <<"executing VM with mode", execution_mode>>
    IN returns(IF s1.shadow # None
               THEN IF result # None
                    THEN take_and_report(s3, with_context(unwrap(result), ctx), fs_ok)
                    ELSE s3
               ELSE s1, main_result)

\* a call of the shadow VM that panics: nothing in the driver catches the
\* unwinding, so it leaves the operation
shadow_call_unwinding(self, call) ==
    [event(event(self, "shadow", call), "unwind", call) EXCEPT !.status = "panicked"]

\* execute, when shadow.vm.execute panics
execute_unwinding(self, execution_mode, main_result) ==
    LET s1 == main_call(self, <<"execute", execution_mode>>, main_result)
    IN returns(IF s1.shadow # None
               THEN shadow_call_unwinding(s1, <<"execute", execution_mode>>)
               ELSE s1, main_result)

inspect(self, dispatcher, execution_mode, main_result, shadow_result, fs_ok) ==
    LET s1 == main_call(self, <<"inspect", dispatcher, execution_mode>>, main_result)
        s2 == shadow_call(s1, <<"inspect", "()", execution_mode>>, shadow_result)
        errors == check_results_match(<<>>, main_result, shadow_result)
        s3 == compared(s2, errors)
        result == into_result(errors)
        ctx == <<"executing VM with mode", execution_mode>>
    IN returns(IF s1.shadow # None
               THEN IF result # None
                    THEN take_and_report(s3, with_context(unwrap(result), ctx), fs_ok)
                    ELSE s3
               ELSE s1, main_result)

\* a query that calls the shadow VM and compares without looking whether the
\* cell holds a shadow
query_unconditional(self, name, main_value, shadow_value, fs_ok) ==
    LET s1 == main_query(self, <<name>>, main_value)
        s2 == borrow(s1)
        s3 == shadow_query(s2, <<name>>, shadow_value)
        result == single(name, main_value, shadow_value)
        s4 == compared(s3, IF result = None THEN <<>> ELSE unwrap(result).errors)
        s5 == IF result # None THEN take_and_report(s4, unwrap(result), fs_ok) ELSE s4
    IN returns([s5 EXCEPT !.borrow = @ - 1], main_value)

\* the four queries taking &self share this shape: the Ref returned by
\* borrow() lives to the end of the `if let`, so it is alive at take()
query(self, name, main_value, shadow_value, fs_ok) ==
    LET s1 == main_query(self, <<name>>, main_value)
        s2 == borrow(s1)
        s3 == shadow_query(s2, <<name>>, shadow_value)
        result == single(name, main_value, shadow_value)
        s4 == compared(s3, IF result = None THEN <<>> ELSE unwrap(result).errors)
        s5 == IF result # None THEN take_and_report(s4, unwrap(result), fs_ok) ELSE s4
    IN returns(IF s1.shadow # None THEN [s5 EXCEPT !.borrow = @ - 1] ELSE s1, main_value)

get_bootloader_memory(self, main_memory, shadow_memory, fs_ok) ==
    query(self, "get_bootloader_memory", main_memory, shadow_memory, fs_ok)

get_last_tx_compressed_bytecodes(self, main_bytecodes, shadow_bytecodes, fs_ok) ==
    query(self, "get_last_tx_compressed_bytecodes", main_bytecodes, shadow_bytecodes, fs_ok)

get_current_execution_state(self, main_state, shadow_state, fs_ok) ==
    query(self, "get_current_execution_state", main_state, shadow_state, fs_ok)

gas_remaining(self, main_gas, shadow_gas, fs_ok) ==
    query(self, "gas_remaining", main_gas, shadow_gas, fs_ok)

\* start_new_l2_block that forgets to record the block env in the dump
start_new_l2_block_no_dump(self, l2_block_env) ==
    LET s1 == main_call(self, <<"start_new_l2_block", l2_block_env>>, "()")
    IN returns(IF s1.shadow # None
               THEN shadow_call(s1, <<"start_new_l2_block", l2_block_env>>, "()")
               ELSE s1, "()")

start_new_l2_block(self, l2_block_env) ==
    LET s1 == main_call(self, <<"start_new_l2_block", l2_block_env>>, "()")
    IN returns(IF s1.shadow # None
               THEN shadow_call(dump_push_block(s1, l2_block_env),
                                <<"start_new_l2_block", l2_block_env>>, "()")
               ELSE s1, "()")

\* execute_transaction_with_bytecode_compression recording the transaction
\* after the shadow VM has run it
execute_transaction_dump_late(self, tx, with_compression, main_result, shadow_result, fs_ok) ==
    LET call == <<"execute_transaction_with_bytecode_compression", tx, with_compression>>
        s1 == main_call(self, call, main_result)
        s2 == dump_push_transaction(shadow_call(s1, call, shadow_result), tx)
        errors == check_results_match(<<>>, main_result[2], shadow_result[2])
        s3 == compared(s2, errors)
        result == into_result(errors)
        ctx == <<"executing transaction", tx, with_compression>>
    IN returns(IF s1.shadow # None
               THEN IF result # None
                    THEN take_and_report(s3, with_context(unwrap(result), ctx), fs_ok)
                    ELSE s3
               ELSE s1, main_result)

execute_transaction_with_bytecode_compression(self, tx, with_compression, main_result, shadow_result, fs_ok) ==
    LET call == <<"execute_transaction_with_bytecode_compression", tx, with_compression>>
        s1 == main_call(self, call, main_result)
        s2 == shadow_call(dump_push_transaction(s1, tx), call, shadow_result)
        errors == check_results_match(<<>>, main_result[2], shadow_result[2])
        s3 == compared(s2, errors)
        result == into_result(errors)
        ctx == <<"executing transaction", tx, with_compression>>
    IN returns(IF s1.shadow # None
               THEN IF result # None
                    THEN take_and_report(s3, with_context(unwrap(result), ctx), fs_ok)
                    ELSE s3
               ELSE s1, main_result)

\* inspect_transaction_with_bytecode_compression that also compares the
\* outcomes of the bytecode compression
inspect_transaction_comparing_compression(self, tracer, tx, with_compression, main_result, shadow_result, fs_ok) ==
    LET s1 == main_call(self, <<"inspect_transaction_with_bytecode_compression",
                                tracer, tx, with_compression>>, main_result)
        s2 == shadow_call(dump_push_transaction(s1, tx),
                          <<"inspect_transaction_with_bytecode_compression",
                            "()", tx, with_compression>>, shadow_result)
        e1 == check_match(<<>>, "compression", main_result[1], shadow_result[1])
        errors == check_results_match(e1, main_result[2], shadow_result[2])
        s3 == compared(s2, errors)
        result == into_result(errors)
        ctx == <<"inspecting transaction", tx, with_compression>>
    IN returns(IF s1.shadow # None
               THEN IF result # None
                    THEN take_and_report(s3, with_context(unwrap(result), ctx), fs_ok)
                    ELSE s3
               ELSE s1, main_result)

inspect_transaction_with_bytecode_compression(self, tracer, tx, with_compression, main_result, shadow_result, fs_ok) ==
    LET s1 == main_call(self, <<"inspect_transaction_with_bytecode_compression",
                                tracer, tx, with_compression>>, main_result)
        s2 == shadow_call(dump_push_transaction(s1, tx),
                          <<"inspect_transaction_with_bytecode_compression",
                            "()", tx, with_compression>>, shadow_result)
        errors == check_results_match(<<>>, main_result[2], shadow_result[2])
        s3 == compared(s2, errors)
        result == into_result(errors)
        ctx == <<"inspecting transaction", tx, with_compression>>
    IN returns(IF s1.shadow # None
               THEN IF result # None
                    THEN take_and_report(s3, with_context(unwrap(result), ctx), fs_ok)
                    ELSE s3
               ELSE s1, main_result)

record_vm_memory_metrics(self, metrics) ==
    returns(main_query(self, <<"record_vm_memory_metrics">>, metrics), metrics)

\* finish_batch returning the shadow VM's batch while there is a shadow
finish_batch_returns_shadow(self, main_batch, shadow_batch, fs_ok) ==
    LET s1 == main_call(self, <<"finish_batch">>, main_batch)
        s2 == shadow_call(s1, <<"finish_batch">>, shadow_batch)
        e1 == check_results_match(<<>>, main_batch.block_tip_execution_result,
                                  shadow_batch.block_tip_execution_result)
        e2 == check_final_states_match(e1, main_batch.final_execution_state,
                                       shadow_batch.final_execution_state)
        e3 == check_match(e2, "final_bootloader_memory",
                          main_batch.final_bootloader_memory,
                          shadow_batch.final_bootloader_memory)
        e4 == check_match(e3, "pubdata_input", main_batch.pubdata_input,
                          shadow_batch.pubdata_input)
        errors == check_match(e4, "state_diffs", main_batch.state_diffs,
                              shadow_batch.state_diffs)
        s3 == compared(s2, errors)
        result == into_result(errors)
    IN IF s1.shadow # None
       THEN returns(IF result # None
                    THEN take_and_report(s3, unwrap(result), fs_ok)
                    ELSE s3, shadow_batch)
       ELSE returns(s1, main_batch)

\* finish_batch that does not look at pubdata_input
finish_batch_ignoring_pubdata(self, main_batch, shadow_batch, fs_ok) ==
    LET s1 == main_call(self, <<"finish_batch">>, main_batch)
        s2 == shadow_call(s1, <<"finish_batch">>, shadow_batch)
        e1 == check_results_match(<<>>, main_batch.block_tip_execution_result,
                                  shadow_batch.block_tip_execution_result)
        e2 == check_final_states_match(e1, main_batch.final_execution_state,
                                       shadow_batch.final_execution_state)
        e3 == check_match(e2, "final_bootloader_memory",
                          main_batch.final_bootloader_memory,
                          shadow_batch.final_bootloader_memory)
        errors == check_match(e3, "state_diffs", main_batch.state_diffs,
                              shadow_batch.state_diffs)
        s3 == compared(s2, errors)
        result == into_result(errors)
    IN returns(IF s1.shadow # None
               THEN IF result # None
                    THEN take_and_report(s3, unwrap(result), fs_ok)
                    ELSE s3
               ELSE s1, main_batch)

finish_batch(self, main_batch, shadow_batch, fs_ok) ==
    LET s1 == main_call(self, <<"finish_batch">>, main_batch)
        s2 == shadow_call(s1, <<"finish_batch">>, shadow_batch)
        e1 == check_results_match(<<>>, main_batch.block_tip_execution_result,
                                  shadow_batch.block_tip_execution_result)
        e2 == check_final_states_match(e1, main_batch.final_execution_state,
                                       shadow_batch.final_execution_state)
        e3 == check_match(e2, "final_bootloader_memory",
                          main_batch.final_bootloader_memory,
                          shadow_batch.final_bootloader_memory)
        e4 == check_match(e3, "pubdata_input", main_batch.pubdata_input,
                          shadow_batch.pubdata_input)
        errors == check_match(e4, "state_diffs", main_batch.state_diffs,
                              shadow_batch.state_diffs)
        s3 == compared(s2, errors)
        result == into_result(errors)
    IN returns(IF s1.shadow # None
               THEN IF result # None
                    THEN take_and_report(s3, unwrap(result), fs_ok)
                    ELSE s3
               ELSE s1, main_batch)

\* make_snapshot that is not forwarded to the shadow VM
make_snapshot_main_only(self) ==
    returns(main_call(self, <<"make_snapshot">>, "()"), "()")

make_snapshot(self) ==
    LET s1 == IF self.shadow # None
              THEN shadow_call(self, <<"make_snapshot">>, "()")
              ELSE self
    IN returns(main_call(s1, <<"make_snapshot">>, "()"), "()")

\* rollback_to_the_latest_snapshot that retires the shadow instead of
\* rolling it back
rollback_to_the_latest_snapshot_retiring(self) ==
    LET s1 == IF self.shadow # None THEN take(self) ELSE self
    IN returns(main_call(s1, <<"rollback_to_the_latest_snapshot">>, "()"), "()")

\* rollback_to_the_latest_snapshot that also empties the recorded inputs
rollback_to_the_latest_snapshot_truncating(self) ==
    LET s1 == IF self.shadow # None
              THEN [shadow_call(self, <<"rollback_to_the_latest_snapshot">>, "()")
                        EXCEPT !.shadow[1].partial_dump.blocks_and_transactions = <<>>]
              ELSE self
    IN returns(main_call(s1, <<"rollback_to_the_latest_snapshot">>, "()"), "()")

rollback_to_the_latest_snapshot(self) ==
    LET s1 == IF self.shadow # None
              THEN shadow_call(self, <<"rollback_to_the_latest_snapshot">>, "()")
              ELSE self
    IN returns(main_call(s1, <<"rollback_to_the_latest_snapshot">>, "()"), "()")

pop_snapshot_no_rollback(self) ==
    LET s1 == IF self.shadow # None
              THEN shadow_call(self, <<"pop_snapshot_no_rollback">>, "()")
              ELSE self
    IN returns(main_call(s1, <<"pop_snapshot_no_rollback">>, "()"), "()")

-----------------------------------------------------------------------------
(* The state machine: one action per operation of ShadowVm *)

\* a constructor leaving panic_on_divergence false
Init_without_panic ==
    \E batch_env \in L1BatchEnvs, system_env \in SystemEnvs :
        /\ main = [calls |-> <<>>, used_contract_hashes |-> <<>>]
        /\ shadow = Some([vm |-> [calls |-> <<>>],
                          storage |-> StorageView_new,
                          partial_dump |-> VmStateDump_new(batch_env, system_env),
                          dumps_directory |-> None,
                          panic_on_divergence |-> FALSE])
        /\ reports = <<>>
        /\ status = "running"
        /\ events = <<>>
        /\ last = [call |-> <<"new">>, main_ret |-> None, shadow_ret |-> None]
        /\ ret = None
        /\ gateway = None
        /\ producer = None

\* ShadowVm::new
Init ==
    \E batch_env \in L1BatchEnvs, system_env \in SystemEnvs :
        /\ main = [calls |-> <<>>, used_contract_hashes |-> <<>>]
        /\ shadow = Some([vm |-> [calls |-> <<>>],
                          storage |-> StorageView_new,
                          partial_dump |-> VmStateDump_new(batch_env, system_env),
                          dumps_directory |-> None,
                          panic_on_divergence |-> TRUE])
        /\ reports = <<>>
        /\ status = "running"
        /\ events = <<>>
        /\ last = [call |-> <<"new">>, main_ret |-> None, shadow_ret |-> None]
        /\ ret = None
        /\ gateway = None
        /\ producer = None

\* the state the operation `call` leaves behind
Done(self, call) ==
    /\ main' = self.main
    /\ shadow' = self.shadow
    /\ reports' = self.reports
    /\ status' = self.status
    /\ events' = self.events
    /\ last' = [call |-> call, main_ret |-> self.main_ret, shadow_ret |-> self.shadow_ret]
    /\ ret' = self.ret
    /\ UNCHANGED <<gateway, producer>>

Active == shadow # None

Retired == shadow = None

Running == status = "running"

\* What the shadow VM may return from a call: drawn from `values` when the
\* call is made, a fixed value nobody looks at when there is no shadow.
ShadowReturns(values) ==
    IF shadow # None THEN values ELSE {CHOOSE value \in values : TRUE}

\* Whether the file system calls of dump_to_file succeed; they are made only
\* by a shadow that has a dumps directory.
FileSystem ==
    IF shadow # None /\ unwrap(shadow).dumps_directory # None THEN BOOLEAN ELSE {TRUE}

\* a further state-changing call fits in the model's bound
MayChange == Running /\ Len(main.calls) < MaxOps

SetDumpsDirectory ==
    \E dir \in Directories :
        /\ Running
        /\ Done(set_dumps_directory(Self, dir), <<"set_dumps_directory", dir>>)

SetPanicOnDivergence ==
    \E flag \in BOOLEAN :
        /\ Running
        /\ Done(set_panic_on_divergence(Self, flag), <<"set_panic_on_divergence", flag>>)

PushTransaction ==
    \E tx \in Transactions :
        /\ MayChange
        /\ Done(push_transaction(Self, tx), <<"push_transaction", tx>>)

Execute ==
    \E execution_mode \in VmExecutionModes, main_result \in VmExecutionResults,
       shadow_result \in ShadowReturns(VmExecutionResults),
       fs_ok \in FileSystem :
        /\ MayChange
        /\ Done(execute(Self, execution_mode, main_result, shadow_result, fs_ok),
                <<"execute", execution_mode>>)

Inspect ==
    \E dispatcher \in TracerDispatchers, execution_mode \in VmExecutionModes,
       main_result \in VmExecutionResults,
       shadow_result \in ShadowReturns(VmExecutionResults), fs_ok \in FileSystem :
        /\ MayChange
        /\ Done(inspect(Self, dispatcher, execution_mode, main_result, shadow_result, fs_ok),
                <<"inspect", dispatcher, execution_mode>>)

GetBootloaderMemory ==
    \E main_memory \in BootloaderMemories, shadow_memory \in ShadowReturns(BootloaderMemories), fs_ok \in FileSystem :
        /\ Running
        /\ Done(get_bootloader_memory(Self, main_memory, shadow_memory, fs_ok),
                <<"get_bootloader_memory">>)

GetLastTxCompressedBytecodes ==
    \E main_bytecodes \in CompressedBytecodes, shadow_bytecodes \in ShadowReturns(CompressedBytecodes), fs_ok \in FileSystem :
        /\ Running
        /\ Done(get_last_tx_compressed_bytecodes(Self, main_bytecodes, shadow_bytecodes, fs_ok),
                <<"get_last_tx_compressed_bytecodes">>)

StartNewL2Block ==
    \E l2_block_env \in L2BlockEnvs :
        /\ MayChange
        /\ Done(start_new_l2_block(Self, l2_block_env), <<"start_new_l2_block", l2_block_env>>)

GetCurrentExecutionState ==
    \E main_state \in CurrentExecutionStates, shadow_state \in ShadowReturns(CurrentExecutionStates), fs_ok \in FileSystem :
        /\ Running
        /\ Done(get_current_execution_state(Self, main_state, shadow_state, fs_ok),
                <<"get_current_execution_state">>)

ExecuteTransactionWithBytecodeCompression ==
    \E tx \in Transactions, with_compression \in Compressions,
       main_result \in CompressionResults,
       shadow_result \in ShadowReturns(CompressionResults), fs_ok \in FileSystem :
        /\ MayChange
        /\ Done(execute_transaction_with_bytecode_compression(
                    Self, tx, with_compression, main_result, shadow_result, fs_ok),
                <<"execute_transaction_with_bytecode_compression", tx, with_compression>>)

InspectTransactionWithBytecodeCompression ==
    \E tracer \in TracerDispatchers, tx \in Transactions, with_compression \in Compressions,
       main_result \in CompressionResults,
       shadow_result \in ShadowReturns(CompressionResults), fs_ok \in FileSystem :
        /\ MayChange
        /\ Done(inspect_transaction_with_bytecode_compression(
                    Self, tracer, tx, with_compression, main_result, shadow_result, fs_ok),
                <<"inspect_transaction_with_bytecode_compression", tracer, tx, with_compression>>)

RecordVmMemoryMetrics ==
    \E metrics \in VmMemoryMetrics :
        /\ Running
        /\ Done(record_vm_memory_metrics(Self, metrics), <<"record_vm_memory_metrics">>)

GasRemaining ==
    \E main_gas \in GasValues, shadow_gas \in ShadowReturns(GasValues), fs_ok \in FileSystem :
        /\ Running
        /\ Done(gas_remaining(Self, main_gas, shadow_gas, fs_ok), <<"gas_remaining">>)

FinishBatch ==
    \E main_batch \in FinishedL1Batches, shadow_batch \in ShadowReturns(FinishedL1Batches), fs_ok \in FileSystem :
        /\ MayChange
        /\ Done(finish_batch(Self, main_batch, shadow_batch, fs_ok), <<"finish_batch">>)

MakeSnapshot ==
    /\ MayChange
    /\ Done(make_snapshot(Self), <<"make_snapshot">>)

RollbackToTheLatestSnapshot ==
    /\ MayChange
    /\ Done(rollback_to_the_latest_snapshot(Self), <<"rollback_to_the_latest_snapshot">>)

PopSnapshotNoRollback ==
    /\ MayChange
    /\ Done(pop_snapshot_no_rollback(Self), <<"pop_snapshot_no_rollback">>)

Next ==
    \/ SetDumpsDirectory
    \/ SetPanicOnDivergence
    \/ PushTransaction
    \/ Execute
    \/ Inspect
    \/ GetBootloaderMemory
    \/ GetLastTxCompressedBytecodes
    \/ StartNewL2Block
    \/ GetCurrentExecutionState
    \/ ExecuteTransactionWithBytecodeCompression
    \/ InspectTransactionWithBytecodeCompression
    \/ RecordVmMemoryMetrics
    \/ GasRemaining
    \/ FinishBatch
    \/ MakeSnapshot
    \/ RollbackToTheLatestSnapshot
    \/ PopSnapshotNoRollback

NextDefault ==
    \/ SetDumpsDirectory
    \/ PushTransaction
    \/ Execute
    \/ Inspect
    \/ GetBootloaderMemory
    \/ GetLastTxCompressedBytecodes
    \/ StartNewL2Block
    \/ GetCurrentExecutionState
    \/ ExecuteTransactionWithBytecodeCompression
    \/ InspectTransactionWithBytecodeCompression
    \/ RecordVmMemoryMetrics
    \/ GasRemaining
    \/ FinishBatch
    \/ MakeSnapshot
    \/ RollbackToTheLatestSnapshot
    \/ PopSnapshotNoRollback

\* a driver on which set_panic_on_divergence is never called
SpecDefault == Init /\ [][NextDefault]_vars

\* execute with a shadow VM that panics in the call
ExecuteShadowPanics ==
    \E execution_mode \in VmExecutionModes, main_result \in VmExecutionResults :
        /\ MayChange
        /\ Active
        /\ Done(execute_unwinding(Self, execution_mode, main_result),
                <<"execute", execution_mode>>)

NextUnwinding ==
    \/ Next
    \/ ExecuteShadowPanics

\* the driver with a shadow VM that may panic
SpecUnwinding == Init /\ [][NextUnwinding]_vars

Spec == Init /\ [][Next]_vars

-----------------------------------------------------------------------------
(* Vocabulary of the properties *)

Queries ==
    {"get_bootloader_memory", "get_last_tx_compressed_bytecodes",
     "get_current_execution_state", "gas_remaining"}

ComparedMutating ==
    {"execute", "inspect", "execute_transaction_with_bytecode_compression",
     "inspect_transaction_with_bytecode_compression", "finish_batch"}

WithInput ==
    {"push_transaction", "start_new_l2_block",
     "execute_transaction_with_bytecode_compression",
     "inspect_transaction_with_bytecode_compression"}

\* the positions of the events of one kind in a trace of events
Positions(trace, kind) == {i \in DOMAIN trace : trace[i][1] = kind}

\* the kinds of the events of a trace, in order
Kinds(trace) == [i \in DOMAIN trace |-> trace[i][1]]

Prefix(seq, n) == [i \in 1..n |-> seq[i]]

\* the transaction or block env that a call of a VM carries
InputOf(call) ==
    CASE call[1] = "push_transaction" -> <<"transaction", call[2]>>
      [] call[1] = "start_new_l2_block" -> <<"block", call[2]>>
      [] call[1] = "execute_transaction_with_bytecode_compression" -> <<"transaction", call[2]>>
      [] call[1] = "inspect_transaction_with_bytecode_compression" -> <<"transaction", call[3]>>

\* the transactions and block envs carried by a sequence of calls, in order
RECURSIVE InputsOf(_)
InputsOf(calls) ==
    IF calls = <<>> THEN <<>>
    ELSE IF Head(calls)[1] \in WithInput
         THEN <<InputOf(Head(calls))>> \o InputsOf(Tail(calls))
         ELSE InputsOf(Tail(calls))

\* a call of the main VM with its tracer replaced by the unit tracer
UnitTracer(call) ==
    CASE call[1] = "inspect" -> <<"inspect", "()", call[3]>>
      [] call[1] = "inspect_transaction_with_bytecode_compression" ->
            <<"inspect_transaction_with_bytecode_compression", "()", call[3], call[4]>>
      [] OTHER -> call

\* two execution results agree on the six compared fields
SameResults(a, b) ==
    /\ a.result = b.result
    /\ a.logs.events = b.logs.events
    /\ a.logs.system_l2_to_l1_logs = b.logs.system_l2_to_l1_logs
    /\ a.logs.user_l2_to_l1_logs = b.logs.user_l2_to_l1_logs
    /\ UniqueStorageLogs_new(a.logs.storage_logs) = UniqueStorageLogs_new(b.logs.storage_logs)
    /\ a.refunds = b.refunds

SameFinalStates(a, b) ==
    /\ a.events = b.events
    /\ a.user_l2_to_l1_logs = b.user_l2_to_l1_logs
    /\ a.system_logs = b.system_logs
    /\ a.storage_refunds = b.storage_refunds
    /\ a.pubdata_costs = b.pubdata_costs
    /\ collect_set(a.used_contract_hashes) = collect_set(b.used_contract_hashes)
    /\ gather_logs(a.deduplicated_storage_logs) = gather_logs(b.deduplicated_storage_logs)

\* what the two VMs returned to operation `op` agrees on everything `op` compares
SameOutputs(op) ==
    LET a == unwrap(op.main_ret)
        b == unwrap(op.shadow_ret)
    IN CASE op.call[1] \in {"execute", "inspect"} -> SameResults(a, b)
         [] op.call[1] \in {"execute_transaction_with_bytecode_compression",
                            "inspect_transaction_with_bytecode_compression"} ->
                SameResults(a[2], b[2])
         [] op.call[1] = "finish_batch" ->
                /\ SameResults(a.block_tip_execution_result, b.block_tip_execution_result)
                /\ SameFinalStates(a.final_execution_state, b.final_execution_state)
                /\ a.final_bootloader_memory = b.final_bootloader_memory
                /\ a.pubdata_input = b.pubdata_input
                /\ a.state_diffs = b.state_diffs
         [] op.call[1] \in Queries -> a = b
         [] OTHER -> TRUE

\* the events of a trace in which VM `who` is driven with operation `name`
Driven(trace, who, name) ==
    {i \in DOMAIN trace : trace[i][1] = who /\ trace[i][2][1] = name}

\* the shadow VM was called by the last operation
Forwarded == Positions(events, "shadow") # {}

\* the last operation compared outputs that differ
Diverged(op) == op.shadow_ret # None /\ ~SameOutputs(op)

-----------------------------------------------------------------------------
(* Properties *)

\* C1 (passthrough): whenever an operation that returns a value returns, it
\* returns the value the main VM returned to it for that call, whether the
\* shadow is active, diverged in this operation or is retired.
Passthrough ==
    (ret # None /\ last.call[1] \in ComparedMutating \cup Queries) => ret = last.main_ret

\* C1 witness: finish_batch saw a divergence, retired the shadow and returned
\* the main VM's batch.
PassthroughWitness ==
    /\ status = "running"
    /\ Retired
    /\ last.call[1] = "finish_batch"
    /\ Diverged(last)
    /\ ret = last.main_ret

\* C2 (retirement is final): once the cell is empty it stays empty, no later
\* operation calls the shadow VM or compares, and a later query returns the
\* main VM's value.
RetirementIsFinal ==
    [][Retired =>
        /\ shadow' = None
        /\ Positions(events', "shadow") = {}
        /\ Positions(events', "compare") = {}
        /\ last'.shadow_ret = None
        /\ (last'.call[1] \in Queries => ret' # None /\ ret' = last'.main_ret)]_vars

\* C2 witness: a query answered after the retirement.
RetirementIsFinalWitness ==
    /\ Retired
    /\ status = "running"
    /\ last.call[1] = "gas_remaining"
    /\ ret = last.main_ret

\* C3 (single report): report runs at most once in the life of a driver, each
\* run logs one JSON dump and writes at most one file, and an operation after
\* the report produces neither.
SingleReport ==
    [][/\ Len(reports') <= 1
       /\ Cardinality(Positions(events', "json")) = Len(reports') - Len(reports)
       /\ Cardinality(Positions(events', "file")) <= Len(reports') - Len(reports)
       /\ (reports # <<>> => reports' = reports)]_vars

\* C3 witness: a compared operation run after the report, on the main VM only.
SingleReportWitness ==
    /\ Len(reports) = 1
    /\ status = "running"
    /\ last.call[1] \in ComparedMutating
    /\ last.shadow_ret = None
    /\ Positions(events, "json") = {}

\* C4 (equivalence closure): an operation whose two outputs agree on every
\* compared field (storage logs after normalisation), or that compares
\* nothing, produces no report and leaves the shadow active.
EquivalenceClosure ==
    [][(Active /\ ~Diverged(last')) =>
        /\ shadow' # None
        /\ reports' = reports
        /\ status' = "running"]_vars

\* C4 witness: execute got storage logs that differ only benignly; the shadow
\* is still active and nothing was reported.
EquivalenceClosureWitness ==
    /\ Active
    /\ last.call[1] = "execute"
    /\ last.main_ret # last.shadow_ret
    /\ ~Diverged(last)
    /\ reports = <<>>

\* C5 (divergence without panic): with panic_on_divergence false, a compared
\* mutating operation that sees a mismatch retires the shadow, produces the
\* dump and returns the main VM's result; every later operation returns,
\* runs on the main VM only and produces no further dump.
DivergenceWithoutPanic ==
    [][/\ (/\ Active
           /\ ~unwrap(shadow).panic_on_divergence
           /\ last'.call[1] \in ComparedMutating
           /\ Diverged(last')) =>
            /\ shadow' = None
            /\ Len(reports') = Len(reports) + 1
            /\ Positions(events', "json") # {}
            /\ status' = "running"
            /\ ret' = last'.main_ret
       /\ (Retired /\ Running) =>
            /\ status' = "running"
            /\ ret' # None
            /\ reports' = reports
            /\ Positions(events', "shadow") = {}]_vars

\* C5 witness: after a divergence without panic, a later execute ran on the
\* main VM only and returned its result.
DivergenceWithoutPanicWitness ==
    /\ Retired
    /\ Len(reports) = 1
    /\ status = "running"
    /\ last.call[1] = "execute"
    /\ last.shadow_ret = None
    /\ ret = last.main_ret

\* C6 (query divergence): with panic_on_divergence false, a query that sees
\* the two values differ empties the cell, reports once and returns the main
\* VM's value without terminating the process.
QueryDivergenceRetires ==
    [][(/\ Active
        /\ ~unwrap(shadow).panic_on_divergence
        /\ last'.call[1] \in Queries
        /\ Diverged(last')) =>
            /\ shadow' = None
            /\ Len(reports') = Len(reports) + 1
            /\ status' = "running"
            /\ ret' = last'.main_ret]_vars

\* C7 as stated (ordering rule): in an operation that carries an input and is
\* forwarded to both VMs the input is recorded into the dump, then the main
\* VM is driven, then the shadow VM, then the comparison runs.
OrderingRule ==
    (last.call[1] \in WithInput /\ Forwarded) =>
        \A d \in Positions(events, "dump"),
           m \in Driven(events, "main", last.call[1]),
           s \in Driven(events, "shadow", last.call[1]) :
            /\ d < m
            /\ m < s
            /\ \A c \in Positions(events, "compare") : s < c

\* C7 as amended (the order the operations have): push_transaction records
\* the input, drives the shadow VM, then the main VM; start_new_l2_block
\* drives the main VM, records the input, then drives the shadow VM; the two
\* *_with_bytecode_compression operations drive the main VM, record the
\* input, drive the shadow VM and then compare.
OrderingAsCoded ==
    (last.call[1] \in WithInput /\ Forwarded) =>
        LET kinds == Kinds(events)
        IN CASE last.call[1] = "push_transaction" -> kinds = <<"dump", "shadow", "main">>
             [] last.call[1] = "start_new_l2_block" -> kinds = <<"main", "dump", "shadow">>
             [] OTHER -> /\ Len(kinds) >= 4
                         /\ Prefix(kinds, 4) = <<"main", "dump", "shadow", "compare">>

\* C7 witness: a transaction executed with bytecode compression on both VMs
\* and compared.
OrderingAsCodedWitness ==
    /\ last.call[1] = "execute_transaction_with_bytecode_compression"
    /\ Forwarded
    /\ Positions(events, "compare") # {}

\* C8 (record before forward): when the shadow VM is called with a
\* transaction or block env, that input is already in the dump, so a dump
\* reported because of this call ends with the input.
RecordBeforeForward ==
    /\ \A s \in Positions(events, "shadow") :
            events[s][2][1] \in WithInput =>
                \E d \in 1..(s - 1) :
                    events[d] = <<"dump", InputOf(events[s][2])>>
    /\ (last.call[1] \in WithInput /\ Positions(events, "json") # {}) =>
            LET dumped == reports[Len(reports)].dump.blocks_and_transactions
            IN dumped # <<>> /\ dumped[Len(dumped)] = InputOf(last.call)

\* C8 witness: inspecting a transaction diverged, and the reported dump holds
\* that transaction.
RecordBeforeForwardWitness ==
    /\ last.call[1] = "inspect_transaction_with_bytecode_compression"
    /\ Positions(events, "json") # {}
    /\ reports # <<>>

\* C9 (dump ordering): while the shadow is active, and in the dump reported
\* at retirement, blocks_and_transactions is the sequence of transactions and
\* block envs issued to the driver since construction, in order.
DumpOrdering ==
    [][/\ shadow' # None =>
            /\ unwrap(shadow').partial_dump.blocks_and_transactions = InputsOf(main'.calls)
            /\ InputsOf(unwrap(shadow').vm.calls) = InputsOf(main'.calls)
       /\ Len(reports') > Len(reports) =>
            reports'[Len(reports')].dump.blocks_and_transactions = InputsOf(main'.calls)]_vars

\* C9 witness: a reported dump listing two different inputs.
DumpOrderingWitness ==
    /\ reports # <<>>
    /\ Len(reports[1].dump.blocks_and_transactions) >= 2
    /\ reports[1].dump.blocks_and_transactions[1] # reports[1].dump.blocks_and_transactions[2]

\* C10 (lock-step): while the shadow is active, the state-changing calls the
\* shadow VM has received are those the main VM has received, in order, with
\* the tracer replaced by the unit tracer.
LockStep ==
    Active =>
        unwrap(shadow).vm.calls = [i \in DOMAIN main.calls |-> UnitTracer(main.calls[i])]

\* C10 witness: an active shadow after two calls, one of them with a tracer.
LockStepWitness ==
    /\ Active
    /\ Len(main.calls) >= 2
    /\ \E i \in DOMAIN main.calls : main.calls[i][1] = "inspect"

\* C11 (failure containment): when the shadow VM panics in a call forwarded by
\* the driver, the driver retires the shadow through report (cell emptied,
\* dump produced) and, unless it is to panic on divergence, the operation
\* returns the main VM's result.
FailureContainment ==
    [][Positions(events', "unwind") # {} =>
        /\ shadow' = None
        /\ Len(reports') = Len(reports) + 1
        /\ (~unwrap(shadow).panic_on_divergence =>
                status' = "running" /\ ret' = last'.main_ret)]_vars

\* the operations that change the state of a VM
StateChanging ==
    {"push_transaction", "start_new_l2_block", "execute", "inspect",
     "execute_transaction_with_bytecode_compression",
     "inspect_transaction_with_bytecode_compression", "finish_batch",
     "make_snapshot", "rollback_to_the_latest_snapshot", "pop_snapshot_no_rollback"}

\* C12 (the primary is not influenced by the secondary): with
\* panic_on_divergence false, what a driver operation delivers to the main VM
\* depends on the operation alone, whatever the shadow VM returns and whether
\* it is active, diverging or retired: the operation completes, a
\* state-changing one having delivered exactly its call to the main VM and
\* any other none, so two runs of the same operations deliver the same calls.
PrimaryUndisturbed ==
    [][(Retired \/ ~unwrap(shadow).panic_on_divergence) =>
        /\ status' = "running"
        /\ main'.calls = IF last'.call[1] \in StateChanging
                         THEN Append(main.calls, last'.call)
                         ELSE main.calls]_vars

\* the last operation ended in a panic carrying the composite error of the
\* report just made
PanickedWithCompositeError ==
    /\ status = "panicked"
    /\ reports # <<>>
    /\ \E p \in Positions(events, "panic") :
            /\ p = Len(events)
            /\ Positions(events, "json") # {}
            /\ events[p][2] = reports[Len(reports)].err.errors

\* C13 (defaults): a fresh driver has an active shadow, no dumps directory
\* and panic_on_divergence true; when no setter of panic_on_divergence is
\* called, a divergence terminates the process with the composite error and
\* the driver does not continue on the main VM.
PanicsByDefault ==
    /\ (last.call[1] = "new" =>
            /\ Active
            /\ unwrap(shadow).dumps_directory = None
            /\ unwrap(shadow).panic_on_divergence)
    /\ Diverged(last) => PanickedWithCompositeError

\* C14 as stated (non-fatal by default): on a driver for which
\* set_panic_on_divergence was never called, a divergence retires the shadow,
\* records a dump and the process keeps running on the main VM.
NonFatalByDefault ==
    Diverged(last) => (Retired /\ reports # <<>> /\ status = "running")

\* C14 as amended (fatal by default): on a driver for which
\* set_panic_on_divergence was never called, a divergence terminates the
\* process, which does not keep running on the main VM; when a compared
\* mutating operation sees it, the shadow is retired and the dump recorded
\* before the process terminates.
FatalByDefault ==
    Diverged(last) =>
        /\ status = "panicked"
        /\ ret = None
        /\ (last.call[1] \in ComparedMutating =>
                /\ Retired
                /\ Len(reports) = 1
                /\ PanickedWithCompositeError)

\* C14 witness: a driver left at its defaults whose execute diverged.
FatalByDefaultWitness ==
    /\ last.call[1] = "execute"
    /\ Diverged(last)
    /\ status = "panicked"
    /\ Len(reports) = 1

\* the steps of a report of the operation whose trace is `trace`, in order:
\* take, completion of the dump (which reads the main VM's execution
\* state), the file attempt when `directory` is set, the JSON line
ReportedInOrder(trace, directory, last_step) ==
    \E t, m, j \in DOMAIN trace :
        /\ t < m /\ m < j /\ j < last_step
        /\ trace[t][1] = "take"
        /\ trace[m] = <<"main", <<"get_current_execution_state">>>>
        /\ trace[j][1] = "json"
        /\ Positions(trace, "json") = {j}
        /\ (directory # None =>
                \E f \in Positions(trace, "file") \cup Positions(trace, "file_error") :
                    m < f /\ f < j)

\* C15: in panic mode a divergence makes the driver take the secondary,
\* finalise the dump, write the file when a directory is configured and
\* emit the JSON line, in this order, and only then terminate with the
\* composite error
PanicAfterDump ==
    [][(Active /\ unwrap(shadow).panic_on_divergence /\ Diverged(last')) =>
        /\ status' = "panicked"
        /\ Kinds(events')[Len(events')] = "panic"
        /\ Positions(events', "panic") = {Len(events')}
        /\ ReportedInOrder(events', unwrap(shadow).dumps_directory, Len(events'))
        /\ events'[Len(events')][2] = reports'[Len(reports')].err.errors]_vars

\* the same, for the divergences seen by the compared mutating operations
PanicAfterDumpMutating ==
    [][(/\ Active
        /\ unwrap(shadow).panic_on_divergence
        /\ Diverged(last')
        /\ last'.call[1] \in ComparedMutating) =>
        /\ status' = "panicked"
        /\ Kinds(events')[Len(events')] = "panic"
        /\ Positions(events', "panic") = {Len(events')}
        /\ ReportedInOrder(events', unwrap(shadow).dumps_directory, Len(events'))
        /\ events'[Len(events')][2] = reports'[Len(reports')].err.errors]_vars

\* C16: every retirement emits the JSON dump to the error log exactly once,
\* whether no directory is set, the file was written or writing it failed;
\* a failed file write is only logged: the secondary is retired all the
\* same, and without panic_on_divergence the operation returns the main
\* VM's result
DumpAlwaysLogged ==
    [][(Active /\ shadow' = None) =>
        /\ Len(reports') = Len(reports) + 1
        /\ \E j \in DOMAIN events' :
                /\ Positions(events', "json") = {j}
                /\ events'[j][2] = reports'[Len(reports')].dump.blocks_and_transactions
        /\ (unwrap(shadow).dumps_directory = None <=>
                Positions(events', "file") \cup Positions(events', "file_error") = {})
        /\ (~unwrap(shadow).panic_on_divergence =>
                /\ status' = "running"
                /\ ret' # None
                /\ ret' = last'.main_ret)]_vars

DumpAlwaysLoggedWitness ==
    /\ Retired
    /\ status = "running"
    /\ Positions(events, "file_error") # {}
    /\ \E j \in DOMAIN events : Positions(events, "json") = {j}
    /\ ret # None
    /\ ret = last.main_ret

-----------------------------------------------------------------------------
(* DivergenceErrors::check_final_states_match on its own: the two final    *)
(* states are drawn at the start and the comparison is applied to them.    *)
(* `last` holds the two states and `ret` the complaints.                   *)

\* Longest used_contract_hashes of a final state.
MaxHashes == 3

Hashes == {1, 2, 3}

BoundedSeq(S, n) == UNION {[1..k -> S] : k \in 0..n}

InitFinalStates ==
    \E main_hashes \in BoundedSeq(Hashes, MaxHashes), shadow_hashes \in BoundedSeq(Hashes, MaxHashes) :
        /\ main = [calls |-> <<>>]
        /\ shadow = None
        /\ reports = <<>>
        /\ status = "running"
        /\ events = <<>>
        /\ last = [call |-> <<"check_final_states_match">>,
                   main_ret |-> Some([BaseState EXCEPT !.used_contract_hashes = main_hashes]),
                   shadow_ret |-> Some([BaseState EXCEPT !.used_contract_hashes = shadow_hashes])]
        /\ ret = None
        /\ gateway = None
        /\ producer = None

CheckFinalStatesMatch ==
    /\ last.call[1] = "check_final_states_match"
    /\ ret = None
    /\ ret' = Some(check_final_states_match(<<>>, unwrap(last.main_ret), unwrap(last.shadow_ret)))
    /\ UNCHANGED <<main, shadow, reports, status, events, last, gateway, producer>>

NextFinalStates == CheckFinalStatesMatch

SpecFinalStates == InitFinalStates /\ [][NextFinalStates]_vars

Occurs(seq, x) == \E i \in DOMAIN seq : seq[i] = x

\* C17: check_final_states_match complains about
\* final_state.used_contract_hashes exactly when some hash occurs in one
\* VM's used_contract_hashes and not in the other's; the order and the
\* repetitions of the hashes make no difference
SetFieldInsensitivity ==
    (last.call[1] = "check_final_states_match" /\ ret # None) =>
        LET main_hashes == unwrap(last.main_ret).used_contract_hashes
            shadow_hashes == unwrap(last.shadow_ret).used_contract_hashes
        IN Occurs(unwrap(ret), "final_state.used_contract_hashes")
            <=> \E hash \in Hashes : Occurs(main_hashes, hash) # Occurs(shadow_hashes, hash)

SetFieldInsensitivityWitness ==
    /\ last.call[1] = "check_final_states_match"
    /\ ret = Some(<<>>)
    /\ unwrap(last.main_ret).used_contract_hashes = <<1, 2, 3>>
    /\ unwrap(last.shadow_ret).used_contract_hashes = <<3, 1, 2>>

-----------------------------------------------------------------------------
(* UniqueStorageLogs::new on its own: the slice of logs is drawn at the     *)
(* start and normalised.  `last` holds the slice and `ret` the mapping.    *)

\* Longest slice of storage logs given to UniqueStorageLogs::new.
MaxLogs == 3

StorageLogKinds == {"Read", "InitialWrite", "RepeatedWrite"}

StorageKeys == {1, 2}

StorageValues == {0, 1}

StorageLogs ==
    {StorageLogWithPreviousValue(kind, key, previous_value, value) :
        kind \in StorageLogKinds, key \in StorageKeys,
        previous_value \in StorageValues, value \in StorageValues}

InitLogs ==
    \E logs \in BoundedSeq(StorageLogs, MaxLogs) :
        /\ main = [calls |-> <<>>]
        /\ shadow = None
        /\ reports = <<>>
        /\ status = "running"
        /\ events = <<>>
        /\ last = [call |-> <<"UniqueStorageLogs::new", logs>>,
                   main_ret |-> None, shadow_ret |-> None]
        /\ ret = None
        /\ gateway = None
        /\ producer = None

UniqueStorageLogsNew ==
    /\ last.call[1] = "UniqueStorageLogs::new"
    /\ ret = None
    /\ ret' = Some(UniqueStorageLogs_new(last.call[2]))
    /\ UNCHANGED <<main, shadow, reports, status, events, last, gateway, producer>>

NextLogs == UniqueStorageLogsNew

SpecLogs == InitLogs /\ [][NextLogs]_vars

Normalised == last.call[1] = "UniqueStorageLogs::new" /\ ret # None

\* the positions of the write logs to `key` in `logs`
Writes(logs, key) ==
    {i \in DOMAIN logs : logs[i].log.kind # "Read" /\ logs[i].log.key = key}

FirstWrite(logs, key) == CHOOSE i \in Writes(logs, key) : \A j \in Writes(logs, key) : i <= j

LastWrite(logs, key) == CHOOSE i \in Writes(logs, key) : \A j \in Writes(logs, key) : j <= i

\* the entries of a mapping as log sequences, in every order
Listings(map) ==
    {[i \in DOMAIN order |-> map[order[i]]] :
        order \in {o \in [1..Cardinality(DOMAIN map) -> DOMAIN map] :
                        \A i, j \in DOMAIN o : i # j => o[i] # o[j]}}

\* C18: normalising a slice of logs, listing the entries of the mapping as
\* logs (in any order) and normalising that list gives the same mapping
Idempotence ==
    Normalised =>
        \A listing \in Listings(unwrap(ret)) : UniqueStorageLogs_new(listing) = unwrap(ret)

IdempotenceWitness ==
    /\ Normalised
    /\ DOMAIN unwrap(ret) = StorageKeys
    /\ Len(last.call[2]) = MaxLogs
    /\ \A listing \in Listings(unwrap(ret)) : listing # last.call[2]

\* C19: the mapping has at most one entry per storage key, every entry
\* comes from a write log of the slice, and no entry has previous_value
\* equal to value
NoOpErasure ==
    Normalised =>
        \A key \in DOMAIN unwrap(ret) :
            LET entry == unwrap(ret)[key]
            IN /\ entry.log.key = key
               /\ entry.log.kind # "Read"
               /\ \E i \in Writes(last.call[2], key) :
                       /\ last.call[2][i].log.kind = entry.log.kind
                       /\ last.call[2][i].previous_value = entry.previous_value
               /\ entry.previous_value # entry.log.value

NoOpErasureWitness ==
    /\ Normalised
    /\ \E i, j, k \in DOMAIN last.call[2] :
            /\ last.call[2][i].log.kind = "Read"
            /\ last.call[2][j].log.kind # "Read"
            /\ last.call[2][j].previous_value = last.call[2][j].log.value
            /\ last.call[2][j].log.key \notin DOMAIN unwrap(ret)
            /\ last.call[2][k].log.key \in DOMAIN unwrap(ret)

\* C20, as the specification states it: several write logs to one key
\* always leave a single entry for that key, with the value of the last
\* write and the previous_value of the first
KeyCoalescence ==
    Normalised =>
        \A key \in StorageKeys :
            Cardinality(Writes(last.call[2], key)) > 1 =>
                /\ key \in DOMAIN unwrap(ret)
                /\ unwrap(ret)[key].log.value = last.call[2][LastWrite(last.call[2], key)].log.value
                /\ unwrap(ret)[key].previous_value =
                        last.call[2][FirstWrite(last.call[2], key)].previous_value

\* C20: several write logs to one key leave an entry for that key exactly
\* when the previous_value of the first write differs from the value of the
\* last write; the entry then has that value and that previous_value
KeyCoalescenceUnlessNoOp ==
    Normalised =>
        \A key \in StorageKeys :
            Cardinality(Writes(last.call[2], key)) > 1 =>
                LET first == last.call[2][FirstWrite(last.call[2], key)]
                    latest == last.call[2][LastWrite(last.call[2], key)]
                IN /\ key \in DOMAIN unwrap(ret) <=> first.previous_value # latest.log.value
                   /\ key \in DOMAIN unwrap(ret) =>
                        /\ unwrap(ret)[key].log.value = latest.log.value
                        /\ unwrap(ret)[key].previous_value = first.previous_value

KeyCoalescenceUnlessNoOpWitness ==
    /\ Normalised
    /\ \E key \in DOMAIN unwrap(ret) :
            /\ Cardinality(Writes(last.call[2], key)) > 1
            /\ last.call[2][FirstWrite(last.call[2], key)].log.value # unwrap(ret)[key].log.value
            /\ last.call[2][LastWrite(last.call[2], key)].previous_value
                    # unwrap(ret)[key].previous_value

-----------------------------------------------------------------------------
(* DivergenceErrors::check_results_match on two results that differ in     *)
(* their storage logs only.  `last` holds the two results and `ret` the    *)
(* complaints.                                                             *)

\* Longest storage_logs of a compared result.
MaxResultLogs == 2

\* reads, no-op writes and effective writes to two keys
ResultLogs ==
    {StorageLogWithPreviousValue("Read", key, 0, 0) : key \in StorageKeys}
        \cup {StorageLogWithPreviousValue("RepeatedWrite", key, previous_value, value) :
                key \in StorageKeys, previous_value \in StorageValues, value \in StorageValues}

InitResultLogs ==
    \E main_logs \in BoundedSeq(ResultLogs, MaxResultLogs), shadow_logs \in BoundedSeq(ResultLogs, MaxResultLogs) :
        /\ main = [calls |-> <<>>]
        /\ shadow = None
        /\ reports = <<>>
        /\ status = "running"
        /\ events = <<>>
        /\ last = [call |-> <<"check_results_match">>,
                   main_ret |-> Some([BaseResult EXCEPT !.logs.storage_logs = main_logs]),
                   shadow_ret |-> Some([BaseResult EXCEPT !.logs.storage_logs = shadow_logs])]
        /\ ret = None
        /\ gateway = None
        /\ producer = None

CheckResultsMatch ==
    /\ last.call[1] = "check_results_match"
    /\ ret = None
    /\ ret' = Some(check_results_match(<<>>, unwrap(last.main_ret), unwrap(last.shadow_ret)))
    /\ UNCHANGED <<main, shadow, reports, status, events, last, gateway, producer>>

NextResultLogs == CheckResultsMatch

SpecResultLogs == InitResultLogs /\ [][NextResultLogs]_vars

\* `logs` without its reads and without the no-op writes to keys that no
\* other log of `logs` writes
Essential(logs) ==
    LET essential(log) ==
            /\ log.log.kind # "Read"
            /\ (log.previous_value = log.log.value => Cardinality(Writes(logs, log.log.key)) > 1)
    IN SelectSeq(logs, essential)

\* C21: when the storage logs of the two results differ only by reads and
\* by no-op writes to keys nothing else writes, the two normalised mappings
\* are equal and check_results_match makes no logs.storage_logs complaint
BenignDifferences ==
    (last.call[1] = "check_results_match" /\ ret # None) =>
        LET main_logs == unwrap(last.main_ret).logs.storage_logs
            shadow_logs == unwrap(last.shadow_ret).logs.storage_logs
        IN Essential(main_logs) = Essential(shadow_logs) =>
                /\ UniqueStorageLogs_new(main_logs) = UniqueStorageLogs_new(shadow_logs)
                /\ ~Occurs(unwrap(ret), "logs.storage_logs")

BenignDifferencesWitness ==
    /\ last.call[1] = "check_results_match"
    /\ ret = Some(<<>>)
    /\ unwrap(last.main_ret).logs.storage_logs =
            <<StorageLogWithPreviousValue("RepeatedWrite", 1, 0, 1)>>
    /\ unwrap(last.shadow_ret).logs.storage_logs =
            <<StorageLogWithPreviousValue("RepeatedWrite", 2, 1, 1),
              StorageLogWithPreviousValue("RepeatedWrite", 1, 0, 1)>>

-----------------------------------------------------------------------------
(* A DivergenceErrors accumulator on its own: check_match calls with       *)
(* arbitrary arguments, then into_result.  `events` lists the calls,       *)
(* `last.main_ret` holds the accumulator and `ret` what into_result gave.  *)

\* Most check_match calls on one accumulator.
MaxChecks == 3

Contexts == {"result", "refunds"}

ComparedValues == {1, 2}

InitErrors ==
    /\ main = [calls |-> <<>>]
    /\ shadow = None
    /\ reports = <<>>
    /\ status = "running"
    /\ events = <<>>
    /\ last = [call |-> <<"DivergenceErrors::default">>,
               main_ret |-> Some(<<>>), shadow_ret |-> None]
    /\ ret = None
    /\ gateway = None
    /\ producer = None

CheckMatch ==
    /\ last.call[1] = "DivergenceErrors::default"
    /\ ret = None
    /\ Len(events) < MaxChecks
    /\ \E context \in Contexts, main_value \in ComparedValues, shadow_value \in ComparedValues :
            /\ events' = Append(events, <<"check_match", context, main_value, shadow_value>>)
            /\ last' = [last EXCEPT !.main_ret =
                            Some(check_match(unwrap(@), context, main_value, shadow_value))]
    /\ UNCHANGED <<main, shadow, reports, status, ret, gateway, producer>>

IntoResult ==
    /\ last.call[1] = "DivergenceErrors::default"
    /\ ret = None
    /\ ret' = Some(into_result(unwrap(last.main_ret)))
    /\ UNCHANGED <<main, shadow, reports, status, events, last, gateway, producer>>

NextErrors == CheckMatch \/ IntoResult

SpecErrors == InitErrors /\ [][NextErrors]_vars

\* the check_match calls of `trace` whose two arguments differ
Mismatching(trace) == {i \in DOMAIN trace : trace[i][3] # trace[i][4]}

\* C22: a check_match call with equal arguments leaves the accumulator as it
\* is and one with unequal arguments appends exactly one complaint, so the
\* complaints are as many as the mismatching calls; into_result gives an
\* error exactly when some call mismatched, and the error holds every
\* complaint
ComplaintPerMismatch ==
    last.call[1] = "DivergenceErrors::default" =>
        LET errors == unwrap(last.main_ret)
        IN /\ Len(errors) = Cardinality(Mismatching(events))
           /\ (events # <<>> =>
                LET latest == events[Len(events)]
                    before == Prefix(events, Len(events) - 1)
                IN IF latest[3] = latest[4]
                   THEN Len(errors) = Cardinality(Mismatching(before))
                   ELSE /\ Len(errors) = Cardinality(Mismatching(before)) + 1
                        /\ errors[Len(errors)] = latest[2])
           /\ (ret # None =>
                /\ unwrap(ret) # None <=> Mismatching(events) # {}
                /\ unwrap(ret) # None => unwrap(unwrap(ret)).errors = errors)

ComplaintPerMismatchWitness ==
    /\ last.call[1] = "DivergenceErrors::default"
    /\ Len(events) = 3
    /\ Cardinality(Mismatching(events)) = 2
    /\ events[2][3] = events[2][4]
    /\ ret # None
    /\ unwrap(ret) # None

-----------------------------------------------------------------------------
(* DivergenceErrors::check_results_match on two results that may differ in *)
(* every field, the uncompared statistics included.                        *)

ResultStorageLogs ==
    {<<StorageLogWithPreviousValue("InitialWrite", 1, 0, 1)>>,
     <<StorageLogWithPreviousValue("Read", 2, 0, 0),
       StorageLogWithPreviousValue("InitialWrite", 1, 0, 1)>>,
     <<StorageLogWithPreviousValue("InitialWrite", 1, 0, 0)>>}

\* VmExecutionResultAndLogs
ResultsAndLogs ==
    {[result |-> result,
      logs |-> [events |-> events_, system_l2_to_l1_logs |-> system_logs,
                user_l2_to_l1_logs |-> user_logs, storage_logs |-> storage_logs],
      statistics |-> statistics,
      refunds |-> refunds] :
        result \in {"Success", "Revert"}, events_ \in {<<1>>, <<2>>},
        system_logs \in {<<>>, <<1>>}, user_logs \in {<<>>, <<1>>},
        storage_logs \in ResultStorageLogs, statistics \in {0, 1}, refunds \in {0, 1}}

InitResults ==
    \E main_result \in ResultsAndLogs, shadow_result \in ResultsAndLogs :
        /\ main = [calls |-> <<>>]
        /\ shadow = None
        /\ reports = <<>>
        /\ status = "running"
        /\ events = <<>>
        /\ last = [call |-> <<"check_results_match">>,
                   main_ret |-> Some(main_result), shadow_ret |-> Some(shadow_result)]
        /\ ret = None
        /\ gateway = None
        /\ producer = None

NextResults == CheckResultsMatch

SpecResults == InitResults /\ [][NextResults]_vars

Complaint(context, mismatch) == IF mismatch THEN <<context>> ELSE <<>>

\* C23: the complaints of check_results_match are the contexts of the
\* mismatching fields among result, logs.events, logs.system_l2_to_l1_logs,
\* logs.user_l2_to_l1_logs, logs.storage_logs (normalised) and refunds, in
\* this order; nothing else of the results is compared
SixFieldsInOrder ==
    (last.call[1] = "check_results_match" /\ ret # None) =>
        LET a == unwrap(last.main_ret)
            b == unwrap(last.shadow_ret)
        IN unwrap(ret) =
            Complaint("result", a.result # b.result)
            \o Complaint("logs.events", a.logs.events # b.logs.events)
            \o Complaint("logs.system_l2_to_l1_logs",
                         a.logs.system_l2_to_l1_logs # b.logs.system_l2_to_l1_logs)
            \o Complaint("logs.user_l2_to_l1_logs",
                         a.logs.user_l2_to_l1_logs # b.logs.user_l2_to_l1_logs)
            \o Complaint("logs.storage_logs",
                         UniqueStorageLogs_new(a.logs.storage_logs)
                            # UniqueStorageLogs_new(b.logs.storage_logs))
            \o Complaint("refunds", a.refunds # b.refunds)

SixFieldsInOrderWitness ==
    /\ last.call[1] = "check_results_match"
    /\ ret = Some(<<"logs.events", "logs.storage_logs", "refunds">>)
    /\ unwrap(last.main_ret).statistics # unwrap(last.shadow_ret).statistics

-----------------------------------------------------------------------------
(* finish_batch as the first call of a driver, on batches that differ in   *)
(* any of their five parts.                                                *)

\* FinishedL1Batch
FinishedL1BatchVariants ==
    {[block_tip_execution_result |-> block_tip,
      final_execution_state |-> final_state,
      final_bootloader_memory |-> memory,
      pubdata_input |-> pubdata,
      state_diffs |-> diffs] :
        block_tip \in VmExecutionResults,
        final_state \in CurrentExecutionStates \cup {[BaseState EXCEPT !.events = <<2>>]},
        memory \in {None, Some(<<1>>)},
        pubdata \in {None, Some(<<1>>)},
        diffs \in {None, Some(<<1>>)}}

FinishFirstBatch ==
    \E main_batch \in FinishedL1BatchVariants, shadow_batch \in FinishedL1BatchVariants :
        /\ Running
        /\ Active
        /\ main.calls = <<>>
        /\ Done(finish_batch(Self, main_batch, shadow_batch, TRUE), <<"finish_batch">>)

NextFinishBatch == SetPanicOnDivergence \/ FinishFirstBatch

SpecFinishBatch == Init /\ [][NextFinishBatch]_vars

\* the two batches given to the last finish_batch differ in pubdata_input
\* and in nothing else that is compared
OnlyPubdataDiffers(op) ==
    LET a == unwrap(op.main_ret)
        b == unwrap(op.shadow_ret)
    IN /\ a.pubdata_input # b.pubdata_input
       /\ SameResults(a.block_tip_execution_result, b.block_tip_execution_result)
       /\ SameFinalStates(a.final_execution_state, b.final_execution_state)
       /\ a.final_bootloader_memory = b.final_bootloader_memory
       /\ a.state_diffs = b.state_diffs

\* C24: finish_batch retires the shadow exactly when the two batches differ
\* in a compared field of block_tip_execution_result or of
\* final_execution_state, in final_bootloader_memory, in pubdata_input or in
\* state_diffs; when only pubdata_input differs the report holds the single
\* complaint pubdata_input
RetiresOnBatchDifference ==
    [][(Active /\ last'.call[1] = "finish_batch") =>
        /\ shadow' = None <=> ~SameOutputs(last')
        /\ Len(reports') = Len(reports) + (IF SameOutputs(last') THEN 0 ELSE 1)
        /\ (OnlyPubdataDiffers(last') =>
                reports'[Len(reports')].err.errors = <<"pubdata_input">>)]_vars

RetiresOnBatchDifferenceWitness ==
    /\ last.call[1] = "finish_batch"
    /\ Retired
    /\ status = "running"
    /\ reports # <<>>
    /\ reports[Len(reports)].err.errors = <<"pubdata_input">>
    /\ unwrap(last.main_ret).block_tip_execution_result
            # unwrap(last.shadow_ret).block_tip_execution_result
    /\ unwrap(last.main_ret).final_execution_state
            # unwrap(last.shadow_ret).final_execution_state

-----------------------------------------------------------------------------
(* check_final_states_match on two final states that differ in their       *)
(* deduplicated_storage_logs only.                                         *)

\* Longest deduplicated_storage_logs of a final state.
MaxFinalLogs == 3

\* StorageLog
FinalLogs ==
    {[kind |-> "Read", key |-> key, value |-> 0] : key \in StorageKeys}
        \cup {[kind |-> "RepeatedWrite", key |-> key, value |-> value] :
                key \in StorageKeys, value \in StorageValues}

InitFinalLogs ==
    \E main_logs \in BoundedSeq(FinalLogs, MaxFinalLogs), shadow_logs \in BoundedSeq(FinalLogs, MaxFinalLogs) :
        /\ main = [calls |-> <<>>]
        /\ shadow = None
        /\ reports = <<>>
        /\ status = "running"
        /\ events = <<>>
        /\ last = [call |-> <<"check_final_states_match">>,
                   main_ret |-> Some([BaseState EXCEPT !.deduplicated_storage_logs = main_logs]),
                   shadow_ret |-> Some([BaseState EXCEPT !.deduplicated_storage_logs = shadow_logs])]
        /\ ret = None
        /\ gateway = None
        /\ producer = None

NextFinalLogs == CheckFinalStatesMatch

SpecFinalLogs == InitFinalLogs /\ [][NextFinalLogs]_vars

\* the last write log to `key` in a list of StorageLogs, None without one
LatestWrite(logs, key) ==
    LET writes == {i \in DOMAIN logs : logs[i].kind # "Read" /\ logs[i].key = key}
    IN IF writes = {} THEN None
       ELSE Some(logs[CHOOSE i \in writes : \A j \in writes : j <= i])

\* C25: check_final_states_match complains about deduplicated_storage_logs
\* exactly when, for some key, the last write log to the key differs between
\* the two lists; the order of the logs of different keys, the reads and the
\* earlier writes to a key make no difference
FinalLogsAsMapping ==
    (last.call[1] = "check_final_states_match" /\ ret # None) =>
        LET main_logs == unwrap(last.main_ret).deduplicated_storage_logs
            shadow_logs == unwrap(last.shadow_ret).deduplicated_storage_logs
        IN Occurs(unwrap(ret), "deduplicated_storage_logs")
            <=> \E key \in StorageKeys :
                    LatestWrite(main_logs, key) # LatestWrite(shadow_logs, key)

FinalLogsAsMappingWitness ==
    /\ last.call[1] = "check_final_states_match"
    /\ ret = Some(<<>>)
    /\ unwrap(last.main_ret).deduplicated_storage_logs =
            <<[kind |-> "RepeatedWrite", key |-> 1, value |-> 0],
              [kind |-> "RepeatedWrite", key |-> 2, value |-> 1],
              [kind |-> "RepeatedWrite", key |-> 1, value |-> 1]>>
    /\ unwrap(last.shadow_ret).deduplicated_storage_logs =
            <<[kind |-> "RepeatedWrite", key |-> 1, value |-> 1],
              [kind |-> "Read", key |-> 2, value |-> 0],
              [kind |-> "RepeatedWrite", key |-> 2, value |-> 1]>>

-----------------------------------------------------------------------------
(* The storage part of the dump: between the driver's operations the VMs   *)
(* read and write storage, which fills the cache of the shared StorageView, *)
(* and the main VM uses contracts; execute then compares and reports.      *)

\* Longest used_contract_hashes of the main VM.
MaxUsedContracts == 2

\* the StorageView caches the value read from `key`
StorageRead ==
    \E key \in StorageKeys, value \in StorageValues :
        /\ Running
        /\ Active
        /\ key \notin DOMAIN unwrap(shadow).storage.cache.read_storage_keys
        /\ shadow' = Some([unwrap(shadow) EXCEPT !.storage.cache.read_storage_keys =
                                map_insert(@, key, value)])
        /\ UNCHANGED <<main, reports, status, events, last, ret, gateway, producer>>

\* the StorageView caches whether the write to `key` is an initial one
StorageWrite ==
    \E key \in StorageKeys, is_initial \in BOOLEAN :
        /\ Running
        /\ Active
        /\ key \notin DOMAIN unwrap(shadow).storage.cache.initial_writes
        /\ shadow' = Some([unwrap(shadow) EXCEPT !.storage.cache.initial_writes =
                                map_insert(@, key, is_initial)])
        /\ UNCHANGED <<main, reports, status, events, last, ret, gateway, producer>>

\* the main VM uses the contract with hash `hash`
MainUsesContract ==
    \E hash \in Hashes :
        /\ Running
        /\ Len(main.used_contract_hashes) < MaxUsedContracts
        /\ main' = [main EXCEPT !.used_contract_hashes = Append(@, hash)]
        /\ UNCHANGED <<shadow, reports, status, events, last, ret, gateway, producer>>

ExecuteOneTx ==
    \E shadow_result \in {BaseResult, EventsResult} :
        /\ MayChange
        /\ Active
        /\ Done(execute(Self, "OneTx", BaseResult, shadow_result, TRUE), <<"execute", "OneTx">>)

NextDump == StorageRead \/ StorageWrite \/ MainUsesContract \/ ExecuteOneTx

SpecDump == Init /\ [][NextDump]_vars

\* a report is made by the step
Reporting == Len(reports') = Len(reports) + 1

\* C26: in the dump of every report, read_storage_keys has no zero value and
\* has the hashed key of every cached read of a non-zero value, with that
\* value; a hashed key of the cached initial-write answers is in
\* initial_writes when the answer was `initial` and in repeated_writes
\* otherwise, and the two sets are disjoint
DumpedStorage ==
    [][Reporting =>
        LET cache == unwrap(shadow).storage.cache
            dump == reports'[Len(reports')].dump
        IN /\ \A hashed \in DOMAIN dump.read_storage_keys : dump.read_storage_keys[hashed] # 0
           /\ \A key \in DOMAIN cache.read_storage_keys :
                cache.read_storage_keys[key] # 0 =>
                    /\ hashed_key(key) \in DOMAIN dump.read_storage_keys
                    /\ dump.read_storage_keys[hashed_key(key)] = cache.read_storage_keys[key]
           /\ dump.initial_writes \cap dump.repeated_writes = {}
           /\ \A key \in DOMAIN cache.initial_writes :
                /\ hashed_key(key) \in dump.initial_writes <=> cache.initial_writes[key]
                /\ hashed_key(key) \in dump.repeated_writes <=> ~cache.initial_writes[key]
           /\ \A hashed \in dump.initial_writes \cup dump.repeated_writes :
                \E key \in DOMAIN cache.initial_writes : hashed = hashed_key(key)]_vars

DumpedStorageWitness ==
    /\ reports # <<>>
    /\ LET dump == reports[Len(reports)].dump
       IN /\ DOMAIN dump.read_storage_keys = {hashed_key(1)}
          /\ dump.initial_writes = {hashed_key(2)}
          /\ dump.repeated_writes = {hashed_key(1)}

\* C27: while the shadow is in its cell the four storage fields of its
\* partial dump are empty; the report fills them from the storage cache and
\* from the main VM's used_contract_hashes as they are when the divergence
\* is seen, whatever was cached or used since the driver was made
DumpAtDivergence ==
    [][Active =>
        LET this == unwrap(shadow)
        IN /\ this.partial_dump.read_storage_keys = <<>>
           /\ this.partial_dump.initial_writes = {}
           /\ this.partial_dump.repeated_writes = {}
           /\ this.partial_dump.factory_deps = <<>>
           /\ (Reporting =>
                LET dump == reports'[Len(reports')].dump
                    cache == this.storage.cache
                IN /\ DOMAIN dump.read_storage_keys =
                        {hashed_key(key) : key \in {k \in DOMAIN cache.read_storage_keys :
                                                        cache.read_storage_keys[k] # 0}}
                   /\ dump.initial_writes \cup dump.repeated_writes =
                        {hashed_key(key) : key \in DOMAIN cache.initial_writes}
                   /\ DOMAIN dump.factory_deps =
                        {u256_to_h256(hash) : hash \in {h \in Hashes :
                            /\ Occurs(main.used_contract_hashes, h)
                            /\ u256_to_h256(h) \in DOMAIN FactoryDeps}}
                   /\ \A hash \in DOMAIN dump.factory_deps :
                        dump.factory_deps[hash] = FactoryDeps[hash]
                   /\ dump.blocks_and_transactions = this.partial_dump.blocks_and_transactions)]_vars

DumpAtDivergenceWitness ==
    /\ reports # <<>>
    /\ main.used_contract_hashes = <<3, 1>>
    /\ LET dump == reports[Len(reports)].dump
       IN /\ DOMAIN dump.factory_deps = {u256_to_h256(1)}
          /\ DOMAIN dump.read_storage_keys # {}
          /\ dump.initial_writes # {}
          /\ dump.repeated_writes # {}

SnapshotOperations ==
    {"make_snapshot", "rollback_to_the_latest_snapshot", "pop_snapshot_no_rollback"}

\* the snapshot operations among `calls`, in order
SnapshotCalls(calls) ==
    LET snapshot(call) == call[1] \in SnapshotOperations
    IN SelectSeq(calls, snapshot)

\* C28: a snapshot operation is delivered to the shadow VM, when there is
\* one, and to the main VM, compares nothing, retires nothing and reports
\* nothing; so whenever a later operation starts, both VMs have received the
\* same snapshot operations
SnapshotsForwarded ==
    [][/\ Active => SnapshotCalls(unwrap(shadow).vm.calls) = SnapshotCalls(main.calls)
       /\ last'.call[1] \in SnapshotOperations =>
            /\ status' = "running"
            /\ main'.calls = Append(main.calls, last'.call)
            /\ reports' = reports
            /\ Positions(events', "compare") \cup Positions(events', "take")
                    \cup Positions(events', "json") \cup Positions(events', "file") = {}
            /\ IF Active
               THEN /\ shadow' = Some([unwrap(shadow) EXCEPT
                                            !.vm.calls = Append(@, last'.call)])
                    /\ events' = <<<<"shadow", last'.call>>, <<"main", last'.call>>>>
               ELSE /\ shadow' = None
                    /\ events' = <<<<"main", last'.call>>>>]_vars

SnapshotsForwardedWitness ==
    /\ Active
    /\ Len(main.calls) = 2
    /\ main.calls[1] = <<"make_snapshot">>
    /\ unwrap(shadow).vm.calls[1] = <<"make_snapshot">>
    /\ last.call[1] = "execute"
    /\ Positions(events, "compare") # {}

-----------------------------------------------------------------------------
(* The driver used for pushing transactions and for snapshots only, over   *)
(* longer runs than MaxOps allows.                                         *)

\* Longest run of push_transaction and snapshot operations.
MaxSnapshotOps == 3

MaySnapshot == Running /\ Len(main.calls) < MaxSnapshotOps

PushTransactionAround ==
    \E tx \in Transactions :
        /\ MaySnapshot
        /\ Done(push_transaction(Self, tx), <<"push_transaction", tx>>)

MakeSnapshotAround ==
    /\ MaySnapshot
    /\ Done(make_snapshot(Self), <<"make_snapshot">>)

RollbackAround ==
    /\ MaySnapshot
    /\ Done(rollback_to_the_latest_snapshot(Self), <<"rollback_to_the_latest_snapshot">>)

PopSnapshotAround ==
    /\ MaySnapshot
    /\ Done(pop_snapshot_no_rollback(Self), <<"pop_snapshot_no_rollback">>)

NextSnapshots ==
    PushTransactionAround \/ MakeSnapshotAround \/ RollbackAround \/ PopSnapshotAround

SpecSnapshots == Init /\ [][NextSnapshots]_vars

\* The inputs a VM holds after `calls`, by the contract of
\* VmInterfaceHistoryEnabled: a rollback drops what was pushed since the
\* latest snapshot and removes that snapshot.  `held` are the inputs held
\* and `snapshots` their numbers at the snapshots still kept.
RECURSIVE HeldAfter(_, _, _)
HeldAfter(calls, held, snapshots) ==
    IF calls = <<>> THEN held
    ELSE LET call == Head(calls)
         IN CASE call[1] \in WithInput ->
                    HeldAfter(Tail(calls), Append(held, InputOf(call)), snapshots)
              [] call[1] = "make_snapshot" ->
                    HeldAfter(Tail(calls), held, Append(snapshots, Len(held)))
              [] call[1] = "rollback_to_the_latest_snapshot" /\ snapshots # <<>> ->
                    HeldAfter(Tail(calls), Prefix(held, snapshots[Len(snapshots)]),
                              Prefix(snapshots, Len(snapshots) - 1))
              [] call[1] = "pop_snapshot_no_rollback" /\ snapshots # <<>> ->
                    HeldAfter(Tail(calls), held, Prefix(snapshots, Len(snapshots) - 1))
              [] OTHER -> HeldAfter(Tail(calls), held, snapshots)

\* C29: the snapshot operations leave blocks_and_transactions of the
\* partial dump as it is, so the dump lists every input pushed so far, also
\* those the VMs gave up by a rollback
DumpAppendOnly ==
    [][Active =>
        /\ unwrap(shadow).partial_dump.blocks_and_transactions = InputsOf(main.calls)
        /\ last'.call[1] \in SnapshotOperations =>
                /\ shadow' # None
                /\ unwrap(shadow').partial_dump.blocks_and_transactions =
                        unwrap(shadow).partial_dump.blocks_and_transactions]_vars

DumpAppendOnlyWitness ==
    /\ Active
    /\ main.calls = <<<<"make_snapshot">>, <<"push_transaction", 1>>,
                      <<"rollback_to_the_latest_snapshot">>>>
    /\ unwrap(shadow).partial_dump.blocks_and_transactions = <<<<"transaction", 1>>>>
    /\ HeldAfter(main.calls, <<>>, <<>>) = <<>>
    /\ HeldAfter(unwrap(shadow).vm.calls, <<>>, <<>>) = <<>>

WithBytecodeCompression ==
    {"execute_transaction_with_bytecode_compression",
     "inspect_transaction_with_bytecode_compression"}

\* C30: the two *_with_bytecode_compression operations compare the
\* execution results of the returned pairs only: when the VMs return
\* different compression outcomes with execution results that agree, there
\* is no complaint, the shadow stays in its cell and the main VM's pair is
\* returned
CompressionOutcomeIgnored ==
    [][(/\ Active
        /\ last'.call[1] \in WithBytecodeCompression
        /\ unwrap(last'.main_ret)[1] # unwrap(last'.shadow_ret)[1]
        /\ SameResults(unwrap(last'.main_ret)[2], unwrap(last'.shadow_ret)[2])) =>
        /\ shadow' # None
        /\ reports' = reports
        /\ status' = "running"
        /\ \E c \in DOMAIN events' :
                /\ Positions(events', "compare") = {c}
                /\ events'[c][2] = <<>>
        /\ ret' = last'.main_ret]_vars

CompressionOutcomeIgnoredWitness ==
    /\ Active
    /\ last.call[1] = "inspect_transaction_with_bytecode_compression"
    /\ unwrap(last.main_ret)[1] = "Ok"
    /\ unwrap(last.shadow_ret)[1] = "Err"
    /\ Positions(events, "compare") # {}
    /\ ret = last.main_ret

\* ---------------------------------------------------------------------------
\* The TEE prover gateway: PeriodicApiStruct::run (api_data_fetcher.rs) polling
\* with the PeriodicApi<TeeProofGenerationDataRequest> implementation
\* (proof_gen_data_fetcher.rs).
\*
\* gateway.pc is the position of run:
\*   "loop"             at the top of the loop, before the stop check
\*   "send_request"     past the stop check with a request, before it is posted
\*   "match"            inside send_request(..).await, the request posted, not yet answered
\*   "handle_response"  holding an Ok response, before handle_response
\*   "select"           inside tokio::select!, waiting for the stop channel or the sleep
\*   "returned"         run has returned gateway.result
\* gateway.trace lists what the iteration under way has done.

\* Most HTTP errors the server side produces during one run.
MaxHttpErrors == 2

\* the root hashes a batch verification yields
RootHashes == {1, 2}

\* a TeeVerifierInput either verifies to its root hash or fails to verify
TeeVerifierInputs == [valid : BOOLEAN, root_hash : RootHashes]

verify(tvi) == IF tvi.valid THEN <<"Ok", tvi.root_hash>> ELSE <<"Err", "verification">>

TeeProofGenerationDataResponses ==
    {<<"Success", Some(tvi)>> : tvi \in TeeVerifierInputs}
        \cup {<<"Success", None>>, <<"Error", "err">>}

api_url == "/tee/proof_inputs"

submit_proof_endpoint == "/tee/submit_proofs"

key_pair == [secret_key |-> "secret_key", public_key |-> "public_key"]

sign_ecdsa(secret_key, msg_to_sign) == <<"signature", secret_key, msg_to_sign>>

L1BatchTeeProofForL1(signature, pubkey, proof) == [signature |-> signature, pubkey |-> pubkey, proof |-> proof]

SubmitTeeProofRequest(proof) == <<"SubmitTeeProofRequest", proof>>

TeeProofGenerationDataRequest == <<"TeeProofGenerationDataRequest">>

PeriodicApiStruct_new ==
    [pc |-> "loop", stop |-> FALSE, changed |-> FALSE, http_error |-> 0,
     request |-> None, response |-> None, trace |-> <<>>, result |-> None]

tracing(this, level, message) == [this EXCEPT !.trace = Append(@, <<"tracing", level, message>>)]

\* Calling the async fn only builds its future: the body has not run and
\* nothing is on the wire.
send_http_request(request, endpoint) == [endpoint |-> endpoint, request |-> request]

\* Awaiting the future runs the body: the request is posted to the endpoint.
await(this, future) ==
    [tracing(this, "info", "Sending request") EXCEPT
        !.trace = Append(@, <<"post", future.endpoint, future.request>>)]

\* A future bound to `_` is dropped at once, never polled.
drop(this, future) == this

get_next_request == Some(<<<<>>, TeeProofGenerationDataRequest>>)

handle_response(this, response) ==
    LET called == [this EXCEPT !.trace = Append(@, <<"handle_response", response>>)] IN
    IF response[1] = "Success" /\ response[2] # None
    THEN LET tvi == unwrap(response[2])
             verified == verify(tvi)
         IN  IF verified[1] = "Err"
             THEN tracing(called, "warn", "L1 batch verification failed")
             ELSE LET root_hash_bytes == verified[2]
                      signature == sign_ecdsa(key_pair.secret_key, root_hash_bytes)
                      request == SubmitTeeProofRequest(
                                    L1BatchTeeProofForL1(signature, key_pair.public_key,
                                                         root_hash_bytes))
                  IN  drop(called, send_http_request(request, submit_proof_endpoint))
    ELSE IF response[1] = "Success"
    THEN tracing(called, "info", "There are currently no pending batches to be proven")
    ELSE tracing(called, "error", "Failed to get proof gen data")

\* run_loop without the stop check at the top of the loop
run_loop_unchecked(this) ==
    LET next == get_next_request IN
    [this EXCEPT !.trace = <<<<"get_next_request">>>>,
                 !.request = next,
                 !.pc = IF next # None THEN "send_request" ELSE "select"]

\* the top of the loop: the stop check, then get_next_request
run_loop(this) ==
    IF this.stop
    THEN [tracing([this EXCEPT !.trace = <<>>], "warn", "Stop signal received") EXCEPT
            !.pc = "returned", !.result = Some(<<"Ok", <<>>>>)]
    ELSE LET next == get_next_request IN
         [this EXCEPT !.trace = <<<<"get_next_request">>>>,
                      !.request = next,
                      !.pc = IF next # None THEN "send_request" ELSE "select"]

\* send_request(job_id, request).await starts: the future of send_http_request
\* is polled and the request goes to api_url
run_send_request(this) ==
    [await(this, send_http_request(unwrap(this.request)[2], api_url)) EXCEPT
        !.pc = "match", !.request = None]

\* run_match with the error of send_request propagated out of run
run_match_propagating(this, outcome) ==
    LET answered == [this EXCEPT !.trace = Append(@, <<"send_request", outcome[1]>>)] IN
    IF outcome[1] = "Ok"
    THEN [answered EXCEPT !.pc = "handle_response", !.response = Some(outcome[2])]
    ELSE [answered EXCEPT !.pc = "returned", !.result = Some(outcome)]

\* send_request(..).await completes with `outcome` and run matches on it
run_match(this, outcome) ==
    LET answered == [this EXCEPT !.trace = Append(@, <<"send_request", outcome[1]>>)] IN
    IF outcome[1] = "Ok"
    THEN [answered EXCEPT !.pc = "handle_response", !.response = Some(outcome[2])]
    ELSE [tracing([answered EXCEPT !.http_error = @ + 1], "error", "HTTP request failed")
            EXCEPT !.pc = "select"]

run_handle_response(this) ==
    [handle_response(this, unwrap(this.response)) EXCEPT !.pc = "select", !.response = None]

\* tokio::select!: the branch whose future completed first runs
run_select(this, branch) ==
    IF branch = "changed"
    THEN [tracing(this, "warn", "Stop signal received") EXCEPT
            !.pc = "returned", !.result = Some(<<"Ok", <<>>>>)]
    ELSE [this EXCEPT !.pc = "loop"]

InitRun ==
    /\ main = [calls |-> <<>>]
    /\ shadow = None
    /\ reports = <<>>
    /\ status = "running"
    /\ events = <<>>
    /\ last = [call |-> <<"PeriodicApiStruct::run">>, main_ret |-> None, shadow_ret |-> None]
    /\ ret = None
    /\ gateway = PeriodicApiStruct_new
    /\ producer = None

RunLoop ==
    /\ gateway.pc = "loop"
    /\ gateway' = run_loop(gateway)
    /\ UNCHANGED <<main, shadow, reports, status, events, last, ret, producer>>

RunSendRequest ==
    /\ gateway.pc = "send_request"
    /\ gateway' = run_send_request(gateway)
    /\ UNCHANGED <<main, shadow, reports, status, events, last, ret, producer>>

\* the server answers, or the request fails
RunMatch ==
    /\ gateway.pc = "match"
    /\ \E outcome \in {<<"Ok", response>> : response \in TeeProofGenerationDataResponses}
                        \cup {<<"Err", "reqwest::Error">>} :
            /\ outcome[1] = "Err" => gateway.http_error < MaxHttpErrors
            /\ gateway' = run_match(gateway, outcome)
    /\ UNCHANGED <<main, shadow, reports, status, events, last, ret, producer>>

RunHandleResponse ==
    /\ gateway.pc = "handle_response"
    /\ gateway' = run_handle_response(gateway)
    /\ UNCHANGED <<main, shadow, reports, status, events, last, ret, producer>>

\* stop_receiver.changed() completes once the channel holds an unseen value;
\* the sleep completes once poll_duration has passed
RunSelect ==
    /\ gateway.pc = "select"
    /\ \E branch \in {"changed", "sleep"} :
            /\ branch = "changed" => gateway.changed
            /\ gateway' = run_select(gateway, branch)
    /\ UNCHANGED <<main, shadow, reports, status, events, last, ret, producer>>

\* the owner of the stop channel sends `true`, at any moment of the run
RaiseStop ==
    /\ gateway.pc # "returned"
    /\ ~gateway.stop
    /\ gateway' = [gateway EXCEPT !.stop = TRUE, !.changed = TRUE]
    /\ UNCHANGED <<main, shadow, reports, status, events, last, ret, producer>>

RunStep == RunLoop \/ RunSendRequest \/ RunMatch \/ RunHandleResponse \/ RunSelect

NextRun == RunLoop \/ RunSendRequest \/ RunMatch \/ RunHandleResponse \/ RunSelect \/ RaiseStop

SpecRun == InitRun /\ [][NextRun]_vars

\* The runtime keeps polling the task, every HTTP request is answered or
\* fails, and the sleep elapses: a step of run that is possible is taken.
SpecRunFair == InitRun /\ [][NextRun]_vars /\ WF_vars(RunStep)

\* the requests the iteration under way has posted to `endpoint`
Posted(this, endpoint) ==
    {i \in DOMAIN this.trace : this.trace[i][1] = "post" /\ this.trace[i][2] = endpoint}

\* the calls of `name` the iteration under way has made
Called(this, name) == {i \in DOMAIN this.trace : this.trace[i][1] = name}

ReturnedOk(this) == this.pc = "returned" /\ this.result = Some(<<"Ok", <<>>>>)

SendRequestFailed(this) == \E i \in DOMAIN this.trace : this.trace[i] = <<"send_request", "Err">>

\* C32: a failed HTTP request does not end the loop. The step in which
\* send_request returns an error counts it in http_error, logs it and puts
\* run into the poll wait without returning; handle_response is not called
\* in an iteration whose request failed; the poll wait ends in the next
\* iteration or, on a change of the stop channel, in the return; and run
\* returns only Ok(()), only with the stop signal raised.
HttpErrorDoesNotEndLoop ==
    /\ [](/\ SendRequestFailed(gateway) => Called(gateway, "handle_response") = {}
          /\ gateway.result \in {None, Some(<<"Ok", <<>>>>)}
          /\ gateway.pc = "returned" => (gateway.stop /\ ReturnedOk(gateway)))
    /\ [][ /\ (gateway.pc = "match" /\ SendRequestFailed(gateway')) =>
                (/\ gateway'.http_error = gateway.http_error + 1
                 /\ gateway'.trace[Len(gateway'.trace)]
                        = <<"tracing", "error", "HTTP request failed">>
                 /\ gateway'.pc = "select"
                 /\ gateway'.result = None)
           /\ (gateway.pc = "select" /\ SendRequestFailed(gateway)) =>
                (/\ gateway'.pc \in {"select", "loop", "returned"}
                 /\ (gateway'.pc = "returned" => gateway.changed)
                 /\ (~gateway.changed /\ gateway'.pc # "select" => gateway'.pc = "loop"))]_vars

\* after a failed request run is in a later iteration, holding an Ok response
HttpErrorDoesNotEndLoopWitness ==
    /\ gateway.http_error >= 1
    /\ gateway.pc = "handle_response"
    /\ ~gateway.stop

\* the submit-proof request for root hash h: the signature over h, the public key and h
SubmitProofFor(h) ==
    SubmitTeeProofRequest(L1BatchTeeProofForL1(sign_ecdsa(key_pair.secret_key, h),
                                               key_pair.public_key, h))

\* C33: when handle_response receives Success(Some(input)) and input verifies
\* to root hash h, the submit-proof request for h has been posted to the
\* submit-proof endpoint when handle_response returns; on a failed
\* verification, Success(None) or Error nothing is posted to that endpoint.
SubmitsProofWhenVerified ==
    [][gateway.pc = "handle_response" =>
        LET response == unwrap(gateway.response) IN
        IF response[1] = "Success" /\ response[2] # None /\ unwrap(response[2]).valid
        THEN \E i \in Posted(gateway', submit_proof_endpoint) :
                gateway'.trace[i][3] = SubmitProofFor(unwrap(response[2]).root_hash)
        ELSE Posted(gateway', submit_proof_endpoint) = {}]_vars

\* ---------------------------------------------------------------------------
\* TeeVerifierInputProducer::save_result (tee_verifier_input_producer/mod.rs):
\* the upload of a job's artifacts and the recording of the job as successful.
\*
\* producer.pc is the await save_result is at: "put", "connection",
\* "start_transaction", "mark_job_as_successful", "commit"; "idle" before a
\* call and "returned" after it.
\* producer.object_store maps the uploaded jobs to their artifacts,
\* producer.db maps every job to its committed row, producer.transaction
\* holds the rows written in the open transaction, None when none is open.

\* Most save_result calls in one run of the producer.
MaxSaveResults == 2

JobIds == {1, 2}

JobArtifacts == {"input_a", "input_b"}

object_path(job_id) == <<"tee_verifier_inputs", job_id>>

TeeVerifierInputProducer_new ==
    [pc |-> "idle", calls |-> 0, job_id |-> None, artifacts |-> None, path |-> None,
     object_store |-> <<>>,
     db |-> [job_id \in JobIds |-> [status |-> "in_progress", input_blob_url |-> None]],
     transaction |-> None, trace |-> <<>>, result |-> None, block_number_processed |-> None]

\* a step of save_result has completed with `outcome`
awaited(this, name, outcome) == [this EXCEPT !.trace = Append(@, <<name, outcome>>)]

\* `?` on an error: save_result returns it with its context; the connection
\* and the transaction are dropped, and a transaction dropped without commit
\* is rolled back
context(this, message) ==
    [this EXCEPT !.pc = "returned", !.result = Some(<<"Err", message>>), !.transaction = None]

save_result(this, job_id, artifacts) ==
    [this EXCEPT !.pc = "put", !.calls = @ + 1, !.job_id = Some(job_id),
                 !.artifacts = Some(artifacts), !.path = None, !.trace = <<>>,
                 !.result = None]

put(this, outcome) ==
    LET done == awaited(this, "put", outcome) IN
    IF outcome = "Err"
    THEN context(done, "failed to upload artifacts")
    ELSE LET job_id == unwrap(this.job_id) IN
         [done EXCEPT !.pc = "connection",
                      !.path = Some(object_path(job_id)),
                      !.object_store = [j \in (DOMAIN @) \cup {job_id} |->
                                            IF j = job_id THEN unwrap(this.artifacts) ELSE @[j]]]

connection(this, outcome) ==
    LET done == awaited(this, "connection", outcome) IN
    IF outcome = "Err"
    THEN context(done, "failed to acquire DB connection")
    ELSE [done EXCEPT !.pc = "start_transaction"]

start_transaction(this, outcome) ==
    LET done == awaited(this, "start_transaction", outcome) IN
    IF outcome = "Err"
    THEN context(done, "failed to acquire DB transaction")
    ELSE [done EXCEPT !.pc = "mark_job_as_successful", !.transaction = Some(<<>>)]

\* mark_job_as_successful writing the row outside of the transaction
mark_job_as_successful_autocommit(this, outcome) ==
    LET done == awaited(this, "mark_job_as_successful", outcome) IN
    IF outcome = "Err"
    THEN context(done, "failed to mark job as successful")
    ELSE [done EXCEPT !.pc = "commit",
                      !.db[unwrap(this.job_id)] =
                            [status |-> "successful", input_blob_url |-> this.path]]

mark_job_as_successful(this, outcome) ==
    LET done == awaited(this, "mark_job_as_successful", outcome) IN
    IF outcome = "Err"
    THEN context(done, "failed to mark job as successful")
    ELSE [done EXCEPT !.pc = "commit",
                      !.transaction = Some([j \in {unwrap(this.job_id)} |->
                            [status |-> "successful", input_blob_url |-> this.path]])]

commit(this, outcome) ==
    LET done == awaited(this, "commit", outcome) IN
    IF outcome = "Err"
    THEN context(done, "failed to commit DB transaction")
    ELSE LET written == unwrap(this.transaction) IN
         [done EXCEPT !.pc = "returned",
                      !.db = [j \in DOMAIN @ |-> IF j \in DOMAIN written THEN written[j] ELSE @[j]],
                      !.transaction = None,
                      !.block_number_processed = this.job_id,
                      !.result = Some(<<"Ok", <<>>>>)]

Outcomes == {"Ok", "Err"}

InitSaveResult ==
    /\ main = [calls |-> <<>>]
    /\ shadow = None
    /\ reports = <<>>
    /\ status = "running"
    /\ events = <<>>
    /\ last = [call |-> <<"TeeVerifierInputProducer::save_result">>,
               main_ret |-> None, shadow_ret |-> None]
    /\ ret = None
    /\ gateway = None
    /\ producer = TeeVerifierInputProducer_new

\* the job processor hands a processed job that is not yet successful to save_result
SaveResult ==
    /\ producer.pc \in {"idle", "returned"}
    /\ producer.calls < MaxSaveResults
    /\ \E job_id \in JobIds, artifacts \in JobArtifacts :
            /\ producer.db[job_id].status # "successful"
            /\ producer' = save_result(producer, job_id, artifacts)
    /\ UNCHANGED <<main, shadow, reports, status, events, last, ret, gateway>>

Put ==
    /\ producer.pc = "put"
    /\ \E outcome \in Outcomes : producer' = put(producer, outcome)
    /\ UNCHANGED <<main, shadow, reports, status, events, last, ret, gateway>>

Connection ==
    /\ producer.pc = "connection"
    /\ \E outcome \in Outcomes : producer' = connection(producer, outcome)
    /\ UNCHANGED <<main, shadow, reports, status, events, last, ret, gateway>>

StartTransaction ==
    /\ producer.pc = "start_transaction"
    /\ \E outcome \in Outcomes : producer' = start_transaction(producer, outcome)
    /\ UNCHANGED <<main, shadow, reports, status, events, last, ret, gateway>>

MarkJobAsSuccessful ==
    /\ producer.pc = "mark_job_as_successful"
    /\ \E outcome \in Outcomes : producer' = mark_job_as_successful(producer, outcome)
    /\ UNCHANGED <<main, shadow, reports, status, events, last, ret, gateway>>

Commit ==
    /\ producer.pc = "commit"
    /\ \E outcome \in Outcomes : producer' = commit(producer, outcome)
    /\ UNCHANGED <<main, shadow, reports, status, events, last, ret, gateway>>

NextSaveResult ==
    SaveResult \/ Put \/ Connection \/ StartTransaction \/ MarkJobAsSuccessful \/ Commit

SpecSaveResult == InitSaveResult /\ [][NextSaveResult]_vars

\* the step of save_result taken from `this` to `next` failed
Failed(this, next) ==
    /\ Len(next.trace) = Len(this.trace) + 1
    /\ next.trace[Len(next.trace)][2] = "Err"

Successful(this, job_id) == this.db[job_id].status = "successful"

\* C34: a job is successful in the database only with its artifacts in the
\* object store and their path in its row; the database changes only in the
\* commit of the transaction opened before the marking, after a successful
\* upload, and that commit is the last step before save_result returns
\* Ok(()); the marking itself writes inside the open transaction and leaves
\* the database as it is; and a failed upload, marking or commit (or a failed
\* connection or transaction start) makes save_result return an error with
\* the database unchanged, no transaction open and the job not successful.
SuccessfulOnlyAfterUpload ==
    /\ [](\A job_id \in JobIds :
            Successful(producer, job_id) =>
                (/\ job_id \in DOMAIN producer.object_store
                 /\ producer.db[job_id].input_blob_url = Some(object_path(job_id))))
    /\ [][ /\ producer'.db # producer.db =>
                (/\ producer.pc = "commit"
                 /\ producer.transaction # None
                 /\ \E i \in DOMAIN producer.trace : producer.trace[i] = <<"put", "Ok">>
                 /\ producer'.pc = "returned"
                 /\ producer'.result = Some(<<"Ok", <<>>>>)
                 /\ Successful(producer', unwrap(producer.job_id)))
           /\ producer.pc = "mark_job_as_successful" =>
                (/\ producer.transaction # None
                 /\ producer'.db = producer.db)
           /\ (producer.pc \notin {"idle", "returned"} /\ Failed(producer, producer')) =>
                (/\ producer'.pc = "returned"
                 /\ producer'.result # None
                 /\ unwrap(producer'.result)[1] = "Err"
                 /\ producer'.db = producer.db
                 /\ producer'.transaction = None
                 /\ ~Successful(producer', unwrap(producer.job_id)))
           /\ (producer'.pc = "returned" /\ producer.pc # "returned"
                    /\ producer'.result = Some(<<"Ok", <<>>>>)) =>
                (/\ ~Failed(producer, producer')
                 /\ \A i \in DOMAIN producer.trace : producer.trace[i][2] = "Ok")]_vars

\* one job was recorded as successful, and the save_result of another job
\* uploaded its artifacts and then failed in the commit
SuccessfulOnlyAfterUploadWitness ==
    /\ producer.pc = "returned"
    /\ producer.result = Some(<<"Err", "failed to commit DB transaction">>)
    /\ unwrap(producer.job_id) \in DOMAIN producer.object_store
    /\ ~Successful(producer, unwrap(producer.job_id))
    /\ \E job_id \in JobIds : Successful(producer, job_id)
====
